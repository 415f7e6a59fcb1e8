----------------------------- MODULE HttpServer ------------------------------
(***************************************************************************)
(* The HTTP server of src/http: tasks of the application that hand         *)
(* accepted sockets to vl_http_spawn_connection, the connection tasks, the *)
(* shutdown request, and the destruction of the server once the accept     *)
(* loops have ended and the connections have drained.                      *)
(*                                                                         *)
(* An atomic access of the server is a step of its own.  A receive or a    *)
(* send is the step in which its completion is taken.                      *)
(***************************************************************************)
EXTENDS HttpParser, FiniteSets

CONSTANTS Connections,      \* sockets that the application accepts
          Spawners,         \* tasks that accept
          NoConnection,
          MessagesOf,       \* connection: what its client may send
          SegmentsOf,       \* connection: bytes of a receive
          MaxConnections,   \* max_connections
          PieceMax          \* bytes of a part of a response

ASSUME ServerAssumption ==
    /\ IsFiniteSet(Connections) /\ IsFiniteSet(Spawners)
    /\ NoConnection \notin Connections
    /\ MaxConnections \in Nat \ {0}

ASSUME ClientAssumption ==
    \A c \in Connections :
        /\ SegmentsOf[c] \subseteq Nat
        /\ \A m \in MessagesOf[c] : m.line \in Nat /\ Len(m.headers) \in Nat

VARIABLES server,           \* "up" or "destroyed"
          shutdown_requested,
          active_connections,
          accepting,        \* whether the accept loops go on
          spawning,         \* spawner: connection it spawns a task for
          place,            \* connection: where it is
          open,             \* connection: whether its socket is open
          message,          \* connection: what its client sends
          received,         \* connection: bytes received
          parser,           \* connection: the parser of its task
          left              \* connection: parts of the response to send

countVars == <<shutdown_requested, active_connections>>
taskVars == <<message, received, parser, left>>
httpVars == <<server, countVars, accepting, spawning, place, open, taskVars>>

NoMessage == [line |-> 0, lineOk |-> FALSE, headers |-> <<>>, route |-> FALSE]

\* vl_http_server_init.
ServerInit ==
    /\ server = "up"
    /\ shutdown_requested = FALSE /\ active_connections = 0
    /\ accepting = TRUE
    /\ spawning = [s \in Spawners |-> NoConnection]
    /\ place = [c \in Connections |-> "accepted"]
    /\ open = [c \in Connections |-> TRUE]
    /\ message = [c \in Connections |-> NoMessage]
    /\ received = [c \in Connections |-> 0]
    /\ parser = [c \in Connections |-> NewParser]
    /\ left = [c \in Connections |-> <<>>]

Goto(c, p) == place' = [place EXCEPT ![c] = p]

-----------------------------------------------------------------------------
(* vl_http_spawn_connection.                                               *)

Refuse(s, c) ==
    /\ spawning' = [spawning EXCEPT ![s] = NoConnection]
    /\ Goto(c, "refused")

\* It reads shutdown_requested.
SpawnCheck(s, c) ==
    /\ accepting /\ spawning[s] = NoConnection /\ place[c] = "accepted"
    /\ IF shutdown_requested THEN Refuse(s, c)
       ELSE /\ spawning' = [spawning EXCEPT ![s] = c]
            /\ Goto(c, "limit")
    /\ UNCHANGED <<server, countVars, accepting, open, taskVars>>

\* It reads active_connections and allocates the task's argument.
SpawnLimit(s) ==
    LET c == spawning[s]
    IN  /\ c # NoConnection /\ place[c] = "limit"
        /\ \/ Refuse(s, c)
           \/ /\ active_connections < MaxConnections
              /\ Goto(c, "count") /\ UNCHANGED spawning
        /\ UNCHANGED <<server, countVars, accepting, open, taskVars>>

SpawnCount(s) ==
    LET c == spawning[s]
    IN  /\ c # NoConnection /\ place[c] = "count"
        /\ active_connections' = active_connections + 1
        /\ Goto(c, "spawn")
        /\ UNCHANGED <<server, shutdown_requested, accepting, spawning, open, taskVars>>

\* The task is spawned; its client sends one of its messages.
Start(s, c) ==
    /\ spawning' = [spawning EXCEPT ![s] = NoConnection]
    /\ message' \in { [message EXCEPT ![c] = m] : m \in MessagesOf[c] }
    /\ Goto(c, "recv")

\* Mutant: a connection without a task stays counted.
SpawnTaskKeepsCount(s) ==
    LET c == spawning[s]
    IN  /\ c # NoConnection /\ place[c] = "spawn"
        /\ \/ Start(s, c) /\ UNCHANGED <<received, parser, left>>
           \/ Refuse(s, c) /\ UNCHANGED taskVars
        /\ UNCHANGED <<server, countVars, accepting, open>>

\* vl_spawn succeeds, or the connection is not counted any more.
SpawnTask(s) ==
    LET c == spawning[s]
    IN  /\ c # NoConnection /\ place[c] = "spawn"
        /\ \/ Start(s, c) /\ UNCHANGED <<active_connections, received, parser, left>>
           \/ /\ Refuse(s, c)
              /\ active_connections' = active_connections - 1
              /\ UNCHANGED taskVars
        /\ UNCHANGED <<server, shutdown_requested, accepting, open>>

-----------------------------------------------------------------------------
(* The connection task.                                                    *)

\* Parts of the responses that vl_http_response_write sends one by one: the
\* head, and the body as it is or as one chunk.
Fixed == { <<PieceMax>>, <<1, 1>> }
Chunked == { <<1, 1>> \o body \o <<1>> : body \in {<<>>, <<1>>} }

\* vl_http_error_response.
Respond(c, pieces) ==
    /\ left' = [left EXCEPT ![c] = pieces]
    /\ Goto(c, "send")

\* A receive of vl_http_read_request brings n bytes for the parser.
Recv(c, n) ==
    LET p == Feed(parser[c], message[c], n)
    IN  /\ place[c] = "recv"
        /\ received' = [received EXCEPT ![c] = @ + n]
        /\ parser' = [parser EXCEPT ![c] = p]
        /\ CASE Verdict(p) = "complete" -> Goto(c, "route") /\ UNCHANGED left
             [] Verdict(p) = "more" -> Goto(c, "test") /\ UNCHANGED left
             [] OTHER -> Respond(c, <<1, 1>>)
        /\ UNCHANGED <<server, countVars, accepting, spawning, open, message>>

\* The receive fails, or the client has closed its end.
RecvFails(c) ==
    /\ place[c] = "recv"
    /\ Goto(c, "close")
    /\ UNCHANGED <<server, countVars, accepting, spawning, open, taskVars>>

\* With a request that is not complete, shutdown_requested ends the task.
ShutdownTest(c) ==
    /\ place[c] = "test"
    /\ Goto(c, IF shutdown_requested THEN "close" ELSE "recv")
    /\ UNCHANGED <<server, countVars, accepting, spawning, open, taskVars>>

\* The route's handler makes a response; without a route it is a 404.
Route(c) ==
    /\ place[c] = "route"
    /\ \E pieces \in IF message[c].route THEN Fixed \cup Chunked ELSE {<<1, 1>>} :
           Respond(c, pieces)
    /\ UNCHANGED <<server, countVars, accepting, spawning, open, message, received, parser>>

\* vl_http_send_all sends n bytes of the part at hand.
Send(c, n) ==
    /\ place[c] = "send" /\ n <= Head(left[c])
    /\ left' = [left EXCEPT ![c] =
                   IF n < Head(@) THEN <<Head(@) - n>> \o Tail(@) ELSE Tail(@)]
    /\ IF left'[c] = <<>> THEN Goto(c, "close") ELSE UNCHANGED place
    /\ UNCHANGED <<server, countVars, accepting, spawning, open, message, received, parser>>

SendFails(c) ==
    /\ place[c] = "send"
    /\ Goto(c, "close")
    /\ UNCHANGED <<server, countVars, accepting, spawning, open, taskVars>>

\* The parser and the response of vl_http_connection_run go with it.
Ended(c) ==
    /\ message' = [message EXCEPT ![c] = NoMessage]
    /\ received' = [received EXCEPT ![c] = 0]
    /\ parser' = [parser EXCEPT ![c] = NewParser]
    /\ left' = [left EXCEPT ![c] = <<>>]

\* Mutant: the socket is left open.
CloseSocketKeepsOpen(c) ==
    /\ place[c] = "close"
    /\ Ended(c)
    /\ Goto(c, "discount")
    /\ UNCHANGED <<server, countVars, accepting, spawning, open>>

\* The end of vl_http_connection_task: the socket is closed, and then the
\* connection is not counted any more.
CloseSocket(c) ==
    /\ place[c] = "close"
    /\ open' = [open EXCEPT ![c] = FALSE]
    /\ Ended(c)
    /\ Goto(c, "discount")
    /\ UNCHANGED <<server, countVars, accepting, spawning>>

Discount(c) ==
    /\ place[c] = "discount"
    /\ active_connections' = active_connections - 1
    /\ Goto(c, "done")
    /\ UNCHANGED <<server, shutdown_requested, accepting, spawning, open, taskVars>>

Task(c) ==
    \/ \E n \in SegmentsOf[c] : Recv(c, n)
    \/ \E n \in 1..PieceMax : Send(c, n)
    \/ RecvFails(c) \/ ShutdownTest(c) \/ Route(c) \/ SendFails(c)
    \/ CloseSocket(c) \/ Discount(c)

-----------------------------------------------------------------------------
(* The application.                                                        *)

\* vl_http_server_request_shutdown.
RequestShutdown ==
    /\ server = "up" /\ ~shutdown_requested
    /\ shutdown_requested' = TRUE
    /\ UNCHANGED <<server, active_connections, accepting, spawning, place, open, taskVars>>

\* The accept loops end.
EndAccept ==
    /\ accepting /\ shutdown_requested
    /\ accepting' = FALSE
    /\ UNCHANGED <<server, countVars, spawning, place, open, taskVars>>

\* vl_http_server_destroy, when vl_http_server_active_connections is zero.
ServerDestroy ==
    /\ server = "up" /\ ~accepting
    /\ \A s \in Spawners : spawning[s] = NoConnection
    /\ active_connections = 0
    /\ server' = "destroyed"
    /\ UNCHANGED <<countVars, accepting, spawning, place, open, taskVars>>

HttpNext ==
    \/ \E s \in Spawners : \/ \E c \in Connections : SpawnCheck(s, c)
                           \/ SpawnLimit(s) \/ SpawnCount(s) \/ SpawnTask(s)
    \/ \E c \in Connections : Task(c)
    \/ RequestShutdown \/ EndAccept \/ ServerDestroy

HttpSpec == ServerInit /\ [][HttpNext]_httpVars

-----------------------------------------------------------------------------
\* The segments in which the bytes of a request arrive leave no trace: the
\* parser of a connection is as if all of them had been fed at once.
OneFeed ==
    \A c \in Connections :
        received[c] <= Capacity =>
            parser[c] = Feed(NewParser, message[c], received[c])

\* However the bytes of a request arrive in segments, the parser's verdict is
\* the one its parts determine, and the body of a complete request is of the
\* declared length and lies in the bytes received.
ParserExact ==
    /\ OneFeed
    /\ \A c \in Connections : Exact(parser[c], message[c], received[c])

InTask == { c \in Connections : place[c] \notin {"accepted", "limit", "count", "refused", "done"} }

\* active_connections counts the connections whose task runs or is being
\* spawned, it passes the limit by no more than the spawners that tested it
\* together, and once it has drained and the server is destroyed, no task is
\* left that will use the server, and every socket handed over is closed.
ConnectionsCounted ==
    /\ active_connections = Cardinality(InTask)
    /\ active_connections <= MaxConnections + Cardinality(Spawners) - 1
    /\ server = "destroyed" =>
           \A c \in Connections :
               \/ place[c] = "done" /\ ~open[c]
               \/ place[c] \in {"accepted", "refused"} /\ open[c]

\* The spawners and the connection tasks go on, and a client sends more, closes
\* its end or fails in the end: no receive has a timeout.
HttpFairness ==
    /\ \A s \in Spawners : WF_httpVars(SpawnLimit(s) \/ SpawnCount(s) \/ SpawnTask(s))
    /\ \A c \in Connections : WF_httpVars(Task(c))

\* Once the shutdown is requested and the accept loops have ended, the
\* connections drain to zero, including those that a spawner had let pass
\* before.
ShutdownDrains == (~accepting) ~> (active_connections = 0)
=============================================================================
