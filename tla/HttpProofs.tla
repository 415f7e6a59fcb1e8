----------------------------- MODULE HttpProofs ------------------------------
(***************************************************************************)
(* ConnectionsCounted for any number of connections, spawners and slots.   *)
(*                                                                         *)
(* The limit is tested and counted in two steps, so that the bound is not  *)
(* inductive: it needs the spawners that are between the two.              *)
(***************************************************************************)
EXTENDS HttpServer, FiniteSetTheorems, TLAPS

Places == { "accepted", "limit", "count", "spawn", "refused", "recv", "test",
            "route", "send", "close", "discount", "done" }

HttpTypes ==
    /\ server \in {"up", "destroyed"}
    /\ shutdown_requested \in BOOLEAN /\ accepting \in BOOLEAN
    /\ spawning \in [Spawners -> Connections \cup {NoConnection}]
    /\ place \in [Connections -> Places]
    /\ open \in [Connections -> BOOLEAN]

\* A connection that is being spawned is in the hands of one spawner.
InSpawn == {"limit", "count", "spawn"}
OneSpawner ==
    /\ \A s \in Spawners : spawning[s] # NoConnection => place[spawning[s]] \in InSpawn
    /\ \A c \in Connections : place[c] \in InSpawn => \E s \in Spawners : spawning[s] = c
    /\ \A s, t \in Spawners :
           spawning[s] = spawning[t] /\ spawning[s] # NoConnection => s = t

\* The spawners that have passed the limit and not counted yet.
Passed == { s \in Spawners : /\ spawning[s] # NoConnection
                             /\ place[spawning[s]] = "count" }

HttpInv ==
    /\ HttpTypes
    /\ OneSpawner
    /\ \A c \in Connections : open[c] <=> place[c] \notin {"discount", "done"}
    /\ active_connections = Cardinality(InTask)
    /\ active_connections + Cardinality(Passed)
           <= MaxConnections + Cardinality(Spawners) - 1
    /\ server = "destroyed" =>
           /\ ~accepting
           /\ \A c \in Connections : place[c] \in {"accepted", "refused", "done"}

-----------------------------------------------------------------------------
\* The two sets that are counted are finite.
LEMMA Counts ==
    /\ IsFiniteSet(InTask) /\ Cardinality(InTask) \in Nat
    /\ IsFiniteSet(Passed) /\ Cardinality(Passed) \in Nat
    /\ Cardinality(Passed) <= Cardinality(Spawners)
    /\ Cardinality(Spawners) \in Nat
  <1>1. InTask \in SUBSET Connections /\ Passed \in SUBSET Spawners
    BY DEF InTask, Passed
  <1> QED
    BY <1>1, ServerAssumption, FS_Subset, FS_CardinalityType

\* Nothing is counted at first.
LEMMA HttpInitially == ServerInit => HttpInv
  <1> SUFFICES ASSUME ServerInit PROVE HttpInv
    OBVIOUS
  <1>1. HttpTypes /\ OneSpawner
    BY ServerAssumption DEF ServerInit, HttpTypes, OneSpawner, Places, InSpawn
  <1>2. InTask = {} /\ Passed = {}
    BY DEF ServerInit, InTask, Passed
  <1>3. Cardinality(InTask) = 0 /\ Cardinality(Passed) = 0
    BY <1>2, FS_EmptySet
  <1> QED
    BY <1>1, <1>3, Counts, ServerAssumption DEF ServerInit, HttpInv

\* A step that leaves the set of counted connections alone, and lets no spawner
\* pass the limit, keeps the counts.
LEMMA CountsKept ==
    ASSUME HttpInv, InTask' = InTask, Passed' \subseteq Passed,
           active_connections' = active_connections
    PROVE  /\ active_connections' = Cardinality(InTask')
           /\ active_connections' + Cardinality(Passed')
                  <= MaxConnections + Cardinality(Spawners) - 1
  <1>1. Cardinality(Passed') <= Cardinality(Passed) /\ Cardinality(Passed') \in Nat
    BY Counts, FS_Subset, FS_CardinalityType
  <1> QED
    BY <1>1, Counts, ServerAssumption DEF HttpInv

\* A step of the task of c that keeps it counted.
LEMMA TaskGoesOn ==
    ASSUME HttpInv, NEW c \in Connections, NEW p,
           place[c] \in {"recv", "test", "route", "send"},
           p \in {"recv", "test", "route", "send", "close"},
           Goto(c, p), UNCHANGED <<server, countVars, accepting, spawning, open>>
    PROVE  HttpInv'
  <1>1. place' = [place EXCEPT ![c] = p] /\ place' \in [Connections -> Places]
    BY DEF Goto, HttpInv, HttpTypes, Places
  <1>2. HttpTypes' /\ OneSpawner'
    BY <1>1 DEF HttpInv, HttpTypes, OneSpawner, InSpawn, countVars
  <1>3. InTask' = InTask /\ Passed' \subseteq Passed
    BY <1>1 DEF HttpInv, HttpTypes, InTask, Passed
  <1>4. \A d \in Connections : open'[d] <=> place'[d] \notin {"discount", "done"}
    BY <1>1 DEF HttpInv, HttpTypes
  <1>5. server # "destroyed"
    BY DEF HttpInv
  <1> QED
    BY <1>2, <1>3, <1>4, <1>5, CountsKept DEF HttpInv, countVars

\* Every step keeps the invariant.
LEMMA HttpStep == HttpInv /\ [HttpNext]_httpVars => HttpInv'
  <1> SUFFICES ASSUME HttpInv, [HttpNext]_httpVars PROVE HttpInv'
    OBVIOUS
  <1> USE ServerAssumption
  <1>1. ASSUME NEW s \in Spawners, NEW c \in Connections, SpawnCheck(s, c)
        PROVE  HttpInv'
    <2>1. CASE shutdown_requested
      <3>1. /\ place' = [place EXCEPT ![c] = "refused"]
            /\ spawning' = [spawning EXCEPT ![s] = NoConnection]
        BY <1>1, <2>1 DEF SpawnCheck, Refuse, Goto
      <3>2. HttpTypes' /\ OneSpawner'
        BY <1>1, <3>1 DEF SpawnCheck, HttpInv, HttpTypes, OneSpawner, InSpawn,
                          Places, countVars
      <3>3. InTask' = InTask /\ Passed' \subseteq Passed
        BY <1>1, <3>1 DEF SpawnCheck, HttpInv, HttpTypes, InTask, Passed
      <3> QED
        BY <1>1, <3>1, <3>2, <3>3, CountsKept
        DEF SpawnCheck, HttpInv, HttpTypes, countVars
    <2>2. CASE ~shutdown_requested
      <3>1. /\ place' = [place EXCEPT ![c] = "limit"]
            /\ spawning' = [spawning EXCEPT ![s] = c]
        BY <1>1, <2>2 DEF SpawnCheck, Goto
      <3>2. HttpTypes' /\ OneSpawner'
        BY <1>1, <3>1 DEF SpawnCheck, HttpInv, HttpTypes, OneSpawner, InSpawn,
                          Places, countVars
      <3>3. InTask' = InTask /\ Passed' \subseteq Passed
        BY <1>1, <3>1 DEF SpawnCheck, HttpInv, HttpTypes, InTask, Passed
      <3> QED
        BY <1>1, <3>1, <3>2, <3>3, CountsKept
        DEF SpawnCheck, HttpInv, HttpTypes, countVars
    <2> QED
      BY <2>1, <2>2
  <1>2. ASSUME NEW s \in Spawners, SpawnLimit(s)
        PROVE  HttpInv'
    <2> DEFINE c == spawning[s]
    <2>0. c \in Connections /\ place[c] = "limit"
      BY <1>2 DEF SpawnLimit, HttpInv, HttpTypes
    <2>1. CASE Refuse(s, c)
      <3>1. /\ place' = [place EXCEPT ![c] = "refused"]
            /\ spawning' = [spawning EXCEPT ![s] = NoConnection]
        BY <2>1 DEF Refuse, Goto
      <3>2. HttpTypes' /\ OneSpawner'
        BY <1>2, <2>0, <3>1 DEF SpawnLimit, HttpInv, HttpTypes, OneSpawner,
                                InSpawn, Places, countVars
      <3>3. InTask' = InTask /\ Passed' \subseteq Passed
        BY <2>0, <3>1 DEF HttpInv, HttpTypes, InTask, Passed
      <3> QED
        BY <1>2, <2>0, <3>1, <3>2, <3>3, CountsKept
        DEF SpawnLimit, HttpInv, HttpTypes, countVars
    <2>2. CASE /\ active_connections < MaxConnections
               /\ Goto(c, "count") /\ UNCHANGED spawning
      <3>1. place' = [place EXCEPT ![c] = "count"] /\ spawning' = spawning
        BY <2>2 DEF Goto
      <3>2. HttpTypes' /\ OneSpawner'
        BY <1>2, <2>0, <3>1 DEF SpawnLimit, HttpInv, HttpTypes, OneSpawner,
                                InSpawn, Places, countVars
      <3>3. InTask' = InTask
        BY <2>0, <3>1 DEF HttpInv, HttpTypes, InTask
      <3>4. Cardinality(Passed') \in Nat /\ Cardinality(Passed') <= Cardinality(Spawners)
        <4>1. Passed' \in SUBSET Spawners
          BY DEF Passed
        <4> QED
          BY <4>1, FS_Subset, FS_CardinalityType
      <3>5. active_connections' = active_connections
        BY <1>2 DEF SpawnLimit, countVars
      <3>6. active_connections' + Cardinality(Passed')
                <= MaxConnections + Cardinality(Spawners) - 1
        BY <2>2, <3>4, <3>5, Counts DEF HttpInv
      <3> QED
        BY <1>2, <2>0, <3>1, <3>2, <3>3, <3>5, <3>6
        DEF SpawnLimit, HttpInv, HttpTypes, countVars
    <2> QED
      BY <1>2, <2>1, <2>2 DEF SpawnLimit
  <1>3. ASSUME NEW s \in Spawners, SpawnCount(s)
        PROVE  HttpInv'
    <2> DEFINE c == spawning[s]
    <2>0. c \in Connections /\ place[c] = "count"
      BY <1>3 DEF SpawnCount, HttpInv, HttpTypes
    <2>1. place' = [place EXCEPT ![c] = "spawn"] /\ spawning' = spawning
      BY <1>3 DEF SpawnCount, Goto
    <2>2. HttpTypes' /\ OneSpawner'
      BY <1>3, <2>0, <2>1 DEF SpawnCount, HttpInv, HttpTypes, OneSpawner,
                              InSpawn, Places
    <2>3. InTask' = InTask \cup {c} /\ c \notin InTask
      BY <2>0, <2>1 DEF HttpInv, HttpTypes, InTask
    <2>4. Passed' = Passed \ {s} /\ s \in Passed
      BY <1>3, <2>0, <2>1 DEF SpawnCount, HttpInv, HttpTypes, OneSpawner, Passed
    <2>5. /\ Cardinality(InTask') = Cardinality(InTask) + 1
          /\ Cardinality(Passed') = Cardinality(Passed) - 1
      BY <2>3, <2>4, Counts, FS_AddElement, FS_RemoveElement
    <2>6. /\ active_connections' = Cardinality(InTask')
          /\ active_connections' + Cardinality(Passed')
                 <= MaxConnections + Cardinality(Spawners) - 1
      BY <1>3, <2>5, Counts DEF SpawnCount, HttpInv
    <2> QED
      BY <1>3, <2>0, <2>1, <2>2, <2>6 DEF SpawnCount, HttpInv, HttpTypes
  <1>4. ASSUME NEW s \in Spawners, SpawnTask(s)
        PROVE  HttpInv'
    <2> DEFINE c == spawning[s]
    <2>0. c \in Connections /\ place[c] = "spawn" /\ c # NoConnection
      BY <1>4 DEF SpawnTask, HttpInv, HttpTypes
    <2>1. CASE Start(s, c) /\ UNCHANGED active_connections
      <3>1. /\ place' = [place EXCEPT ![c] = "recv"]
            /\ spawning' = [spawning EXCEPT ![s] = NoConnection]
        BY <2>1 DEF Start, Goto
      <3>2. HttpTypes' /\ OneSpawner'
        BY <1>4, <2>0, <3>1 DEF SpawnTask, HttpInv, HttpTypes, OneSpawner,
                                InSpawn, Places
      <3>3. InTask' = InTask /\ Passed' \subseteq Passed
        BY <2>0, <3>1 DEF HttpInv, HttpTypes, InTask, Passed
      <3> QED
        BY <1>4, <2>0, <2>1, <3>1, <3>2, <3>3, CountsKept
        DEF SpawnTask, HttpInv, HttpTypes
    <2>2. CASE Refuse(s, c) /\ active_connections' = active_connections - 1
      <3>1. /\ place' = [place EXCEPT ![c] = "refused"]
            /\ spawning' = [spawning EXCEPT ![s] = NoConnection]
        BY <2>2 DEF Refuse, Goto
      <3>2. HttpTypes' /\ OneSpawner'
        BY <1>4, <2>0, <3>1 DEF SpawnTask, HttpInv, HttpTypes, OneSpawner,
                                InSpawn, Places
      <3>3. InTask' = InTask \ {c} /\ c \in InTask /\ Passed' \subseteq Passed
        BY <2>0, <3>1 DEF HttpInv, HttpTypes, InTask, Passed
      <3>4. /\ Cardinality(InTask') = Cardinality(InTask) - 1
            /\ Cardinality(Passed') <= Cardinality(Passed)
            /\ Cardinality(Passed') \in Nat
        BY <3>3, Counts, FS_RemoveElement, FS_Subset, FS_CardinalityType
      <3>5. /\ active_connections' = Cardinality(InTask')
            /\ active_connections' + Cardinality(Passed')
                   <= MaxConnections + Cardinality(Spawners) - 1
        BY <2>2, <3>4, Counts DEF HttpInv
      <3> QED
        BY <1>4, <2>0, <3>1, <3>2, <3>5 DEF SpawnTask, HttpInv, HttpTypes
    <2> QED
      BY <1>4, <2>1, <2>2 DEF SpawnTask
  <1>5. ASSUME NEW c \in Connections, NEW n, Recv(c, n)
        PROVE  HttpInv'
    <2>1. \/ Goto(c, "route") \/ Goto(c, "test") \/ Goto(c, "send")
      BY <1>5 DEF Recv, Respond
    <2> QED
      BY <1>5, <2>1, TaskGoesOn DEF Recv
  <1>6. ASSUME NEW c \in Connections, NEW n, Send(c, n)
        PROVE  HttpInv'
    <2>1. CASE Goto(c, "close")
      BY <1>6, <2>1, TaskGoesOn DEF Send
    <2>2. CASE UNCHANGED place
      <3>1. Goto(c, "send")
        BY <1>6, <2>2 DEF Send, Goto, HttpInv, HttpTypes
      <3> QED
        BY <1>6, <3>1, TaskGoesOn DEF Send
    <2> QED
      BY <1>6, <2>1, <2>2 DEF Send
  <1>7. ASSUME NEW c \in Connections, RecvFails(c) \/ SendFails(c)
        PROVE  HttpInv'
    BY <1>7, TaskGoesOn DEF RecvFails, SendFails
  <1>8. ASSUME NEW c \in Connections, ShutdownTest(c)
        PROVE  HttpInv'
    BY <1>8, TaskGoesOn DEF ShutdownTest
  <1>9. ASSUME NEW c \in Connections, Route(c)
        PROVE  HttpInv'
    BY <1>9, TaskGoesOn DEF Route, Respond
  <1>10. ASSUME NEW c \in Connections, CloseSocket(c)
         PROVE  HttpInv'
    <2>1. place' = [place EXCEPT ![c] = "discount"] /\ place[c] = "close"
      BY <1>10 DEF CloseSocket, Goto
    <2>2. HttpTypes' /\ OneSpawner'
      BY <1>10, <2>1 DEF CloseSocket, HttpInv, HttpTypes, OneSpawner, InSpawn,
                         Places, countVars
    <2>3. InTask' = InTask /\ Passed' \subseteq Passed
      BY <1>10, <2>1 DEF CloseSocket, HttpInv, HttpTypes, InTask, Passed
    <2> QED
      BY <1>10, <2>1, <2>2, <2>3, CountsKept
      DEF CloseSocket, HttpInv, HttpTypes, countVars
  <1>11. ASSUME NEW c \in Connections, Discount(c)
         PROVE  HttpInv'
    <2>1. place' = [place EXCEPT ![c] = "done"] /\ place[c] = "discount"
      BY <1>11 DEF Discount, Goto
    <2>2. HttpTypes' /\ OneSpawner'
      BY <1>11, <2>1 DEF Discount, HttpInv, HttpTypes, OneSpawner, InSpawn, Places
    <2>3. InTask' = InTask \ {c} /\ c \in InTask /\ Passed' \subseteq Passed
      BY <1>11, <2>1 DEF Discount, HttpInv, HttpTypes, InTask, Passed
    <2>4. /\ Cardinality(InTask') = Cardinality(InTask) - 1
          /\ Cardinality(Passed') <= Cardinality(Passed)
          /\ Cardinality(Passed') \in Nat
      BY <2>3, Counts, FS_RemoveElement, FS_Subset, FS_CardinalityType
    <2>5. /\ active_connections' = Cardinality(InTask')
          /\ active_connections' + Cardinality(Passed')
                 <= MaxConnections + Cardinality(Spawners) - 1
      BY <1>11, <2>4, Counts DEF Discount, HttpInv
    <2> QED
      BY <1>11, <2>1, <2>2, <2>5 DEF Discount, HttpInv, HttpTypes
  <1>12. ASSUME RequestShutdown \/ EndAccept
         PROVE  HttpInv'
    <2>1. UNCHANGED <<server, active_connections, spawning, place, open>>
      BY <1>12 DEF RequestShutdown, EndAccept, countVars
    <2>2. shutdown_requested' \in BOOLEAN /\ accepting' \in BOOLEAN
      BY <1>12 DEF RequestShutdown, EndAccept, countVars, HttpInv, HttpTypes
    <2>3. HttpTypes' /\ OneSpawner' /\ InTask' = InTask /\ Passed' = Passed
      BY <2>1, <2>2 DEF HttpInv, HttpTypes, OneSpawner, InTask, Passed
    <2>4. server = "up" \/ accepting' = FALSE
      BY <1>12 DEF RequestShutdown, EndAccept
    <2> QED
      BY <2>1, <2>3, <2>4, CountsKept DEF HttpInv
  <1>13. ASSUME ServerDestroy
         PROVE  HttpInv'
    <2>1. HttpTypes' /\ OneSpawner' /\ InTask' = InTask /\ Passed' = Passed
      BY <1>13 DEF ServerDestroy, HttpInv, HttpTypes, OneSpawner, InTask, Passed,
                   countVars
    <2>2. InTask = {}
      BY <1>13, Counts, FS_EmptySet DEF ServerDestroy, HttpInv
    <2>3. \A c \in Connections : place[c] \in {"accepted", "refused", "done"}
      BY <1>13, <2>2 DEF ServerDestroy, HttpInv, HttpTypes, OneSpawner, InSpawn,
                         InTask, Places
    <2> QED
      BY <1>13, <2>1, <2>3, CountsKept DEF ServerDestroy, HttpInv, countVars
  <1>14. CASE UNCHANGED httpVars
    <2>1. HttpTypes' /\ OneSpawner' /\ InTask' = InTask /\ Passed' = Passed
      BY <1>14 DEF httpVars, countVars, HttpInv, HttpTypes, OneSpawner, InTask, Passed
    <2> QED
      BY <1>14, <2>1, CountsKept DEF httpVars, countVars, HttpInv
  <1> QED
    BY <1>1, <1>2, <1>3, <1>4, <1>5, <1>6, <1>7, <1>8, <1>9, <1>10, <1>11, <1>12,
       <1>13, <1>14 DEF HttpNext, Task

\* The invariant implies what the server promises.
LEMMA HttpPromise == HttpInv => ConnectionsCounted
  <1> SUFFICES ASSUME HttpInv PROVE ConnectionsCounted
    OBVIOUS
  <1>1. active_connections <= MaxConnections + Cardinality(Spawners) - 1
    BY Counts, ServerAssumption DEF HttpInv
  <1> QED
    BY <1>1 DEF HttpInv, ConnectionsCounted

\* active_connections counts the connections whose task runs or is being
\* spawned, passes max_connections by at most the number of spawners less one,
\* and at the destruction of the server no task and no socket is left over: for
\* any number of connections and spawners and any limit.
THEOREM ServerCounts == HttpSpec => []ConnectionsCounted
  <1> QED
    BY HttpInitially, HttpStep, HttpPromise, PTL DEF HttpSpec

-----------------------------------------------------------------------------
(* Segments.                                                               *)

Parser(t, h, l, c, e) == [length |-> t, header_end |-> h, content_length |-> l,
                          complete |-> c, error |-> e]

\* The fields of a parser.
LEMMA ParserGet ==
    ASSUME NEW t, NEW h, NEW l, NEW c, NEW e
    PROVE  /\ Parser(t, h, l, c, e).length = t
           /\ Parser(t, h, l, c, e).header_end = h
           /\ Parser(t, h, l, c, e).content_length = l
           /\ Parser(t, h, l, c, e).complete = c
           /\ Parser(t, h, l, c, e).error = e
  BY DEF Parser

\* What an assignment to its length leaves.
LEMMA SetLength ==
    ASSUME NEW t, NEW h, NEW l, NEW c, NEW e, NEW x
    PROVE  [Parser(t, h, l, c, e) EXCEPT !.length = x] = Parser(x, h, l, c, e)
  BY DEF Parser

\* What an assignment to its header_end leaves.
LEMMA SetHeaderEnd ==
    ASSUME NEW t, NEW h, NEW l, NEW c, NEW e, NEW x
    PROVE  [Parser(t, h, l, c, e) EXCEPT !.header_end = x] = Parser(t, x, l, c, e)
  BY DEF Parser

\* What an assignment to its content_length leaves.
LEMMA SetContentLength ==
    ASSUME NEW t, NEW h, NEW l, NEW c, NEW e, NEW x
    PROVE  [Parser(t, h, l, c, e) EXCEPT !.content_length = x] = Parser(t, h, x, c, e)
  BY DEF Parser

\* The parser after t bytes without a verdict: the head is not complete yet, or
\* it is, with h bytes and a content length of l.
Waiting(t, h, l) == Parser(t, h, l, 0, "NONE")

\* What FindHead assigns.
LEMMA WaitingHead ==
    ASSUME NEW t, NEW h, NEW l
    PROVE  [Waiting(t, 0, 0) EXCEPT !.header_end = h, !.content_length = l]
               = Waiting(t, h, l)
  <1>1. [Waiting(t, 0, 0) EXCEPT !.header_end = h] = Waiting(t, h, 0)
    BY SetHeaderEnd DEF Waiting
  <1>2. [Waiting(t, h, 0) EXCEPT !.content_length = l] = Waiting(t, h, l)
    BY SetContentLength DEF Waiting
  <1>3. [Waiting(t, 0, 0) EXCEPT !.header_end = h, !.content_length = l]
            = [[Waiting(t, 0, 0) EXCEPT !.header_end = h] EXCEPT !.content_length = l]
    OBVIOUS
  <1> QED
    BY <1>1, <1>2, <1>3

\* One feed of t bytes looks for the head in all of them.
LEMMA FirstFeed ==
    ASSUME NEW m, NEW t \in Nat, t <= Capacity
    PROVE  Feed(NewParser, m, t) = FindHead(Waiting(t, 0, 0), m)
  <1>1. NewParser = Waiting(0, 0, 0)
    BY DEF NewParser, Waiting, Parser
  <1>2. Capacity \in Nat
    BY LimitAssumption DEF Capacity
  <1>3. /\ NewParser.complete = 0 /\ NewParser.error = "NONE"
        /\ NewParser.length = 0 /\ NewParser.header_end = 0
    BY DEF NewParser
  <1>4. [NewParser EXCEPT !.length = @ + t] = Waiting(t, 0, 0)
    BY <1>1, <1>3, SetLength DEF Waiting
  <1> QED
    BY <1>2, <1>3, <1>4 DEF Feed

\* What FindHead makes of a head that is complete, within the limit and good.
LEMMA GoodHead ==
    ASSUME NEW m, NEW t, ~(t < HeadLength(m)), ~(HeadLength(m) > MaxHeaderBytes),
           ParseHead(m).ok
    PROVE  FindHead(Waiting(t, 0, 0), m)
               = Body(Waiting(t, HeadLength(m), ParseHead(m).length))
  <1>1. [Waiting(t, 0, 0) EXCEPT !.header_end = HeadLength(m),
                                 !.content_length = ParseHead(m).length]
            = Waiting(t, HeadLength(m), ParseHead(m).length)
    BY WaitingHead
  <1>2. Waiting(t, 0, 0).length = t
    BY ParserGet DEF Waiting
  <1> QED
    BY <1>1, <1>2 DEF FindHead

\* A parser without a verdict is one of the two, with the head in its place.
LEMMA Undecided ==
    ASSUME NEW m, HeadLength(m) \in Nat \ {0}, NEW t \in Nat, t <= Capacity,
           Verdict(Feed(NewParser, m, t)) = "more"
    PROVE  LET p == Feed(NewParser, m, t)
               h == ParseHead(m)
           IN  \/ t < HeadLength(m) /\ p = Waiting(t, 0, 0)
               \/ /\ t >= HeadLength(m) /\ HeadLength(m) <= MaxHeaderBytes /\ h.ok
                  /\ p = Waiting(t, HeadLength(m), h.length)
  <1> DEFINE q == Waiting(t, 0, 0)
             r == Waiting(t, HeadLength(m), ParseHead(m).length)
  <1>0. Capacity \in Nat /\ MaxHeaderBytes \in Nat
    BY LimitAssumption DEF Capacity
  <1>1. Verdict(FindHead(q, m)) = "more" /\ Feed(NewParser, m, t) = FindHead(q, m)
    BY FirstFeed
  <1>2. ASSUME NEW p, NEW e, e \in {"400", "413", "431"},
               p = q \/ p = r \/ p = Waiting(t, HeadLength(m), 0),
               FindHead(q, m) = Failed(p, e)
        PROVE  FALSE
    <2>1. Failed(p, e).error = e
      BY <1>2 DEF Failed, Waiting, Parser
    <2> QED
      BY <1>1, <1>2, <2>1 DEF Verdict
  <1>3. q.length = t /\ r.content_length = ParseHead(m).length
    BY ParserGet DEF Waiting
  <1>4. CASE t < HeadLength(m)
    <2>1. ~(t > MaxHeaderBytes)
      BY <1>2, <1>3, <1>4 DEF FindHead
    <2> QED
      BY <1>1, <1>3, <1>4, <2>1 DEF FindHead
  <1>5. CASE ~(t < HeadLength(m))
    <2>1. [q EXCEPT !.header_end = HeadLength(m)] = Waiting(t, HeadLength(m), 0)
      BY SetHeaderEnd DEF Waiting
    <2>2. ~(HeadLength(m) > MaxHeaderBytes)
      BY <1>2, <1>3, <1>5, <2>1 DEF FindHead
    <2>3. [q EXCEPT !.header_end = HeadLength(m),
                    !.content_length = ParseHead(m).length] = r
      BY WaitingHead
    <2>4. ParseHead(m).ok
      BY <1>2, <1>3, <1>5, <2>2, <2>3 DEF FindHead
    <2>5. FindHead(q, m) = Body(r)
      BY <1>5, <2>2, <2>4, GoodHead
    <2>6. Body(r) = r
      <3>1. CASE Body(r) = [r EXCEPT !.complete = 1]
        <4>1. Body(r).error = "NONE" /\ Body(r).complete = 1
          BY <3>1 DEF Waiting, Parser
        <4> QED
          BY <1>1, <2>5, <4>1 DEF Verdict
      <3> QED
        BY <3>1 DEF Body
    <2> QED
      BY <1>0, <1>1, <1>5, <2>2, <2>4, <2>5, <2>6
  <1> QED
    BY <1>4, <1>5

\* Two feeds in a row are one feed of all the bytes, and a feed beyond the
\* capacity fails.
LEMMA FeedTwice ==
    ASSUME NEW m, HeadLength(m) \in Nat \ {0}, NEW t \in Nat, t <= Capacity,
           Verdict(Feed(NewParser, m, t)) = "more", NEW n \in Nat
    PROVE  LET p == Feed(Feed(NewParser, m, t), m, n)
           IN  IF t + n <= Capacity THEN p = Feed(NewParser, m, t + n)
               ELSE Verdict(p) = "413"
  <1> DEFINE p == Feed(NewParser, m, t)
             q == Waiting(t + n, 0, 0)
             r == Waiting(t + n, HeadLength(m), ParseHead(m).length)
  <1>0. Capacity \in Nat /\ MaxHeaderBytes \in Nat
    BY LimitAssumption DEF Capacity
  <1>1. p.complete = 0 /\ p.error = "NONE" /\ p.length = t
    BY Undecided, ParserGet DEF Waiting
  <1>2. CASE ~(t + n <= Capacity)
    <2>1. Feed(p, m, n) = Failed(p, "413")
      BY <1>0, <1>1, <1>2 DEF Feed
    <2>2. Failed(p, "413").error = "413"
      BY Undecided DEF Failed, Waiting, Parser
    <2> QED
      BY <1>2, <2>1, <2>2 DEF Verdict
  <1>3. CASE t + n <= Capacity
    <2>0. Feed(NewParser, m, t + n) = FindHead(q, m)
      BY <1>3, FirstFeed
    <2>1. CASE t < HeadLength(m) /\ p = Waiting(t, 0, 0)
      <3>1. p.header_end = 0 /\ [p EXCEPT !.length = @ + n] = q
        BY <1>1, <2>1, ParserGet, SetLength DEF Waiting
      <3>2. Feed(p, m, n) = FindHead(q, m)
        BY <1>0, <1>1, <1>3, <3>1 DEF Feed
      <3> QED
        BY <1>3, <2>0, <3>2
    <2>2. CASE /\ t >= HeadLength(m) /\ HeadLength(m) <= MaxHeaderBytes
               /\ ParseHead(m).ok
               /\ p = Waiting(t, HeadLength(m), ParseHead(m).length)
      <3>1. p.header_end = HeadLength(m) /\ [p EXCEPT !.length = @ + n] = r
        BY <1>1, <2>2, ParserGet, SetLength DEF Waiting
      <3>2. Feed(p, m, n) = Body(r)
        BY <1>0, <1>1, <1>3, <3>1 DEF Feed
      <3>3. FindHead(q, m) = Body(r)
        BY <1>0, <2>2, GoodHead
      <3> QED
        BY <1>3, <2>0, <3>2, <3>3
    <2> QED
      BY <2>1, <2>2, Undecided
  <1> QED
    BY <1>2, <1>3

\* An empty feed changes nothing.
LEMMA FeedNothing ==
    ASSUME NEW m, HeadLength(m) \in Nat \ {0}
    PROVE  Feed(NewParser, m, 0) = NewParser
  <1>1. 0 <= Capacity /\ MaxHeaderBytes \in Nat
    BY LimitAssumption DEF Capacity
  <1>2. Feed(NewParser, m, 0) = FindHead(Waiting(0, 0, 0), m)
    BY <1>1, FirstFeed
  <1>3. NewParser = Waiting(0, 0, 0) /\ NewParser.length = 0
    BY DEF NewParser, Waiting, Parser
  <1> QED
    BY <1>1, <1>2, <1>3 DEF FindHead

\* Every message has an end of its head.
LEMMA HeadPositive ==
    ASSUME NEW m, m.line \in Nat, Len(m.headers) \in Nat
    PROVE  HeadLength(m) \in Nat \ {0}
  <1>1. HeaderBytes * Len(m.headers) \in Nat
    BY LimitAssumption
  <1> QED
    BY <1>1 DEF HeadLength

\* What holds of the parser of connection c: before its task starts it is new,
\* and the task receives only as long as there is no verdict.
Reading(c) ==
    /\ received[c] \in Nat
    /\ HeadLength(message[c]) \in Nat \ {0}
    /\ received[c] <= Capacity =>
           parser[c] = Feed(NewParser, message[c], received[c])
    /\ place[c] \in {"accepted", "limit", "count", "spawn"} =>
           received[c] = 0 /\ parser[c] = NewParser
    /\ place[c] \in {"recv", "test"} =>
           received[c] <= Capacity /\ Verdict(parser[c]) = "more"

ReadInv ==
    /\ DOMAIN message = Connections
    /\ DOMAIN received = Connections
    /\ DOMAIN parser = Connections
    /\ \A c \in Connections : Reading(c)

\* A new parser on no message.
LEMMA ReadingNothing ==
    /\ HeadLength(NoMessage) \in Nat \ {0}
    /\ Feed(NewParser, NoMessage, 0) = NewParser
    /\ Verdict(NewParser) = "more" /\ 0 <= Capacity
  <1>1. NoMessage.line = 0 /\ NoMessage.headers = << >>
    BY DEF NoMessage
  <1>2. Len(NoMessage.headers) = 0
    BY <1>1
  <1>3. HeadLength(NoMessage) \in Nat \ {0}
    BY <1>1, <1>2, HeadPositive
  <1>4. Verdict(NewParser) = "more"
    BY DEF Verdict, NewParser
  <1> QED
    BY <1>3, <1>4, FeedNothing, LimitAssumption DEF Capacity

\* Nothing has been received at first.
LEMMA ReadInitially == ServerInit => ReadInv
  BY ReadingNothing DEF ServerInit, ReadInv, Reading

\* A step that changes neither message nor parser, and starts no reading.
LEMMA ReadingKept ==
    ASSUME ReadInv, UNCHANGED <<message, received, parser>>,
           \A c \in Connections :
               /\ place'[c] \in {"accepted", "limit", "count", "spawn"} =>
                      place[c] \in {"accepted", "limit", "count", "spawn"}
               /\ place'[c] \in {"recv", "test"} => place[c] \in {"recv", "test"}
    PROVE  ReadInv'
  BY DEF ReadInv, Reading

\* Every step keeps what holds of the parsers.
LEMMA ReadStep == HttpInv /\ ReadInv /\ [HttpNext]_httpVars => ReadInv'
  <1> SUFFICES ASSUME HttpInv, ReadInv, [HttpNext]_httpVars PROVE ReadInv'
    OBVIOUS
  <1>0. place \in [Connections -> Places]
    BY DEF HttpInv, HttpTypes
  <1>1. ASSUME NEW s \in Spawners, NEW c \in Connections, SpawnCheck(s, c)
        PROVE  ReadInv'
    BY <1>0, <1>1, ReadingKept DEF SpawnCheck, Refuse, Goto, taskVars
  <1>2. ASSUME NEW s \in Spawners, SpawnLimit(s) \/ SpawnCount(s)
        PROVE  ReadInv'
    BY <1>0, <1>2, ReadingKept DEF SpawnLimit, SpawnCount, Refuse, Goto, taskVars
  <1>3. ASSUME NEW s \in Spawners, SpawnTask(s)
        PROVE  ReadInv'
    <2>0. PICK c \in Connections : c = spawning[s] /\ place[c] = "spawn"
      BY <1>3 DEF SpawnTask, HttpInv, HttpTypes
    <2>1. CASE Start(s, c) /\ UNCHANGED <<received, parser>>
      <3>1. PICK m \in MessagesOf[c] : message' = [message EXCEPT ![c] = m]
        BY <2>1 DEF Start
      <3>2. HeadLength(m) \in Nat \ {0}
        BY <2>0, <3>1, ClientAssumption, HeadPositive
      <3>3. place' = [place EXCEPT ![c] = "recv"]
        BY <2>1 DEF Start, Goto
      <3>4. Reading(c)'
        BY <1>0, <2>0, <2>1, <3>1, <3>2, <3>3, FeedNothing, ReadingNothing
        DEF ReadInv, Reading
      <3>5. ASSUME NEW d \in Connections, d # c
            PROVE  Reading(d)'
        BY <1>0, <2>1, <3>1, <3>3, <3>5 DEF ReadInv, Reading
      <3>6. DOMAIN message' = Connections
        BY <3>1 DEF ReadInv
      <3> QED
        BY <2>1, <3>4, <3>5, <3>6 DEF ReadInv
    <2>2. CASE Refuse(s, c) /\ UNCHANGED taskVars
      BY <1>0, <2>2, ReadingKept DEF Refuse, Goto, taskVars
    <2> QED
      BY <1>3, <2>0, <2>1, <2>2 DEF SpawnTask
  <1>4. ASSUME NEW c \in Connections, NEW n \in SegmentsOf[c], Recv(c, n)
        PROVE  ReadInv'
    <2> DEFINE p == Feed(parser[c], message[c], n)
    <2>0. /\ n \in Nat /\ received[c] \in Nat /\ HeadLength(message[c]) \in Nat \ {0}
          /\ received[c] <= Capacity /\ Verdict(parser[c]) = "more"
          /\ parser[c] = Feed(NewParser, message[c], received[c])
      BY <1>4, ClientAssumption DEF Recv, ReadInv, Reading
    <2>1. IF received[c] + n <= Capacity
          THEN p = Feed(NewParser, message[c], received[c] + n)
          ELSE Verdict(p) = "413"
      BY <2>0, FeedTwice
    <2>2. /\ received' = [received EXCEPT ![c] = @ + n]
          /\ parser' = [parser EXCEPT ![c] = p]
          /\ message' = message
      BY <1>4 DEF Recv
    <2>3. /\ \E q \in {"route", "test", "send"} : place' = [place EXCEPT ![c] = q]
          /\ place'[c] \in {"recv", "test"} => Verdict(p) = "more"
      <3>1. CASE Verdict(p) = "complete"
        BY <1>0, <1>4, <3>1 DEF Recv, Goto
      <3>2. CASE Verdict(p) = "more"
        BY <1>0, <1>4, <3>2 DEF Recv, Goto
      <3>3. CASE Verdict(p) # "complete" /\ Verdict(p) # "more"
        BY <1>0, <1>4, <3>3 DEF Recv, Respond, Goto
      <3> QED
        BY <3>1, <3>2, <3>3
    <2>4. received'[c] = received[c] + n /\ parser'[c] = p
      BY <2>2 DEF ReadInv
    <2>5. Reading(c)'
      BY <1>0, <2>0, <2>1, <2>2, <2>3, <2>4 DEF Reading
    <2>6. ASSUME NEW d \in Connections, d # c
          PROVE  Reading(d)'
      <3>1. /\ received'[d] = received[d] /\ parser'[d] = parser[d]
            /\ place'[d] = place[d]
        BY <1>0, <2>2, <2>3, <2>6 DEF ReadInv
      <3> QED
        BY <2>2, <3>1 DEF ReadInv, Reading
    <2> QED
      BY <2>2, <2>5, <2>6 DEF ReadInv
  <1>5. ASSUME NEW c \in Connections, NEW n, Send(c, n)
        PROVE  ReadInv'
    BY <1>0, <1>5, ReadingKept DEF Send, Goto
  <1>6. ASSUME NEW c \in Connections,
               RecvFails(c) \/ SendFails(c) \/ ShutdownTest(c) \/ Discount(c)
        PROVE  ReadInv'
    BY <1>0, <1>6, ReadingKept
    DEF RecvFails, SendFails, ShutdownTest, Discount, Goto, taskVars
  <1>7. ASSUME NEW c \in Connections, Route(c)
        PROVE  ReadInv'
    BY <1>0, <1>7, ReadingKept DEF Route, Respond, Goto
  <1>8. ASSUME NEW c \in Connections, CloseSocket(c)
        PROVE  ReadInv'
    <2>1. /\ message' = [message EXCEPT ![c] = NoMessage]
          /\ received' = [received EXCEPT ![c] = 0]
          /\ parser' = [parser EXCEPT ![c] = NewParser]
          /\ place' = [place EXCEPT ![c] = "discount"]
      BY <1>8 DEF CloseSocket, Ended, Goto
    <2>2. Reading(c)'
      BY <1>0, <2>1, ReadingNothing DEF ReadInv, Reading
    <2>3. ASSUME NEW d \in Connections, d # c
          PROVE  Reading(d)'
      BY <1>0, <2>1, <2>3 DEF ReadInv, Reading
    <2> QED
      BY <2>1, <2>2, <2>3 DEF ReadInv
  <1>9. ASSUME RequestShutdown \/ EndAccept \/ ServerDestroy \/ UNCHANGED httpVars
        PROVE  ReadInv'
    BY <1>9, ReadingKept
    DEF RequestShutdown, EndAccept, ServerDestroy, httpVars, taskVars
  <1> QED
    BY <1>1, <1>2, <1>3, <1>4, <1>5, <1>6, <1>7, <1>8, <1>9 DEF HttpNext, Task

\* For every message, every way to cut it into segments and every set of
\* limits, the parser of a connection is as if the bytes that came had been fed
\* at once, as long as they fit in its buffer.
THEOREM SegmentsLeaveNoTrace == HttpSpec => []OneFeed
  <1>1. ReadInv => OneFeed
    BY DEF ReadInv, Reading, OneFeed
  <1> QED
    BY <1>1, HttpInitially, HttpStep, ReadInitially, ReadStep, PTL DEF HttpSpec

=============================================================================
