-------------------------- MODULE ClientLifecycle --------------------------
(***************************************************************************)
(* The connection of the client core: Connect with its handshake, failing  *)
(* and being torn down, Disconnect and Close, the read loop of the socket, *)
(* and the background loops that live as long as a connection is meant to, *)
(* pongLoop and heartbeatLoop. (latencyEmitLoop has the same shape; it     *)
(* only reads what the peer table holds and is left out.)                  *)
(*                                                                         *)
(* Every loop evaluates c.ctx.Done() again at the head of each round, and  *)
(* c.ctx is replaced by a new context when a connection is torn down: a    *)
(* loop that is in the middle of a round then goes on under the new one.   *)
(* Only the read loop was given its context as a parameter.                *)
(*                                                                         *)
(* The operations are called by the front end: its form (doJoin), the      *)
(* timer that connects to the last server once (autoConnect), its          *)
(* Disconnect button, and the shutdown of the application.                 *)
(***************************************************************************)
EXTENDS Integers, Sequences, FiniteSets

CONSTANTS MaxConns,   \* bound: sockets that are ever opened
          MaxBeats,   \* bound: heartbeats that are ever sent
          PongCap,    \* capacity of pongCh
          Overlap     \* whether operations of the front end may overlap

ASSUME MaxConnsAssumption == MaxConns \in Nat \ {0}
ASSUME MaxBeatsAssumption == MaxBeats \in Nat
ASSUME PongCapAssumption == PongCap \in Nat \ {0}
ASSUME OverlapAssumption == Overlap \in BOOLEAN

Conns == 1 .. MaxConns                  \* sockets, in the order they are opened
NoConn == 0                             \* c.conn == nil
Contexts == 1 .. (MaxConns + 1)         \* contexts, in the order they are made
Callers == {"form", "auto", "stop"}
Kinds == {"pong", "beat"}
Idle == [at |-> "none", on |-> 0]

VARIABLES
    ctx,        \* c.ctx
    cancelled,  \* contexts that were cancelled
    conn,       \* c.conn
    conns,      \* how many sockets have been opened
    open,       \* the sockets not closed yet
    server,     \* c.serverAddr # nil
    state,      \* c.state
    room,       \* c.cfg.Room # ""
    reader,     \* read loop of each socket: the context it was given, 0 if none
    loop,       \* background loops by kind and by the connection that began them
    wire,       \* Pings of each socket that are not answered yet
    handler,    \* goroutines of dispatch that carry a Pong of each socket
    pongCh,     \* c.pongCh: the socket each waiting Pong came in by
    pongs,      \* c.pongSeq: the sockets of the Pongs counted so far
    beats,      \* heartbeats sent
    op,         \* where each caller is in its operation
    goal,       \* why the connection is torn down
    before,     \* PingServer's pongSeq when it sent its Ping
    connected,  \* the front end's data.connected
    tried,      \* the front end's autoTried
    process     \* "up", "crashed" by a nil dereference, or "exited"

net == <<wire, handler, pongCh, pongs, beats>>
core == <<ctx, cancelled, conn, conns, open, server, state, room>>
loops == <<reader, loop>>
ui == <<connected, tried>>
ops == <<op, goal, before>>
vars == <<core, loops, net, ui, ops, process>>

States == {"disconnected", "connecting", "joined"}
Steps == {"idle", "leave", "cancel", "close", "nil", "renew",
          "dial", "ping", "wait", "enter"}
Goals == {"join", "fail", "stop"}

TypeOK ==
    /\ ctx \in Contexts /\ cancelled \subseteq Contexts
    /\ conn \in {NoConn} \cup Conns /\ conns \in 0 .. MaxConns /\ open \subseteq Conns
    /\ server \in BOOLEAN /\ state \in States /\ room \in BOOLEAN
    /\ reader \in [Conns -> {0} \cup Contexts]
    /\ loop \in [Kinds \X Conns ->
                   [at : {"none", "top", "select", "body"}, on : {0} \cup Contexts]]
    /\ wire \in [Conns -> Nat] /\ handler \in [Conns -> Nat]
    /\ pongCh \in Seq(Conns) /\ Len(pongCh) <= PongCap
    /\ pongs \in Seq(Conns) /\ beats \in 0 .. MaxBeats
    /\ op \in [Callers -> Steps] /\ goal \in [Callers -> Goals]
    /\ before \in [Callers -> Nat]
    /\ connected \in BOOLEAN /\ tried \in BOOLEAN
    /\ process \in {"up", "crashed", "exited"}

\* New, and the front end as it is mounted.
Init ==
    /\ ctx = 1 /\ cancelled = {}
    /\ conn = NoConn /\ conns = 0 /\ open = {}
    /\ server = FALSE /\ state = "disconnected" /\ room = FALSE
    /\ reader = [c \in Conns |-> 0]
    /\ loop = [l \in Kinds \X Conns |-> Idle]
    /\ wire = [c \in Conns |-> 0] /\ handler = [c \in Conns |-> 0]
    /\ pongCh = <<>> /\ pongs = <<>> /\ beats = 0
    /\ op = [u \in Callers |-> "idle"] /\ goal = [u \in Callers |-> "join"]
    /\ before = [u \in Callers |-> 0]
    /\ connected = FALSE /\ tried = FALSE
    /\ process = "up"

----------------------------------------------------------------------------
(* What calls the client. *)

Goto(u, step) == op' = [op EXCEPT ![u] = step]

Begin(u, step, why) == Goto(u, step) /\ goal' = [goal EXCEPT ![u] = why]

\* The front end awaits one operation before it begins the next. What it does
\* not exclude needs a user who is quicker than that: Disconnect while doJoin
\* runs, or doJoin in the 500 ms before autoConnect's timer.
MayBegin(u) ==
    /\ op[u] = "idle"
    /\ Overlap \/ \A v \in Callers : op[v] = "idle"

\* Mutant: an open connection is not ended first.
doJoin_OverOld ==
    /\ MayBegin("form") /\ op["auto"] = "idle" /\ conns < MaxConns
    /\ Begin("form", "dial", "join")
    /\ UNCHANGED <<core, loops, net, ui, before, process>>

\* doJoin: an open connection is ended first, so that Connect does not
\* overwrite a socket nobody closed.
doJoin ==
    /\ MayBegin("form") /\ op["auto"] = "idle" /\ conns < MaxConns
    /\ IF connected THEN Begin("form", "leave", "join")
                    ELSE Begin("form", "dial", "join")
    /\ UNCHANGED <<core, loops, net, ui, before, process>>

\* autoConnect, 500 ms after the window was made, once; it does not look
\* whether doJoin already runs or is done.
autoConnect ==
    /\ ~tried /\ MayBegin("auto") /\ conns < MaxConns
    /\ Overlap \/ conns = 0
    /\ tried' = TRUE
    /\ Begin("auto", "dial", "join")
    /\ UNCHANGED <<core, loops, net, connected, before, process>>

\* doDisconnect: the button is there as long as data.connected holds.
doDisconnect ==
    /\ connected /\ MayBegin("stop")
    /\ Begin("stop", "leave", "stop")
    /\ UNCHANGED <<core, loops, net, ui, before, process>>

----------------------------------------------------------------------------
(* Connect, failConnect, Disconnect and Close. *)

Start(kind, c) == [loop EXCEPT ![<<kind, c>>] = [at |-> "top", on |-> 0]]

\* The process is gone, and with it its memory, goroutines and sockets.
Vanish(how) ==
    /\ process' = how
    /\ ctx' = 1 /\ cancelled' = {}
    /\ conn' = NoConn /\ open' = {}
    /\ server' = FALSE /\ state' = "disconnected" /\ room' = FALSE
    /\ reader' = [c \in Conns |-> 0]
    /\ loop' = [l \in Kinds \X Conns |-> Idle]
    /\ wire' = [c \in Conns |-> 0] /\ handler' = [c \in Conns |-> 0]
    /\ pongCh' = <<>> /\ pongs' = <<>>
    /\ op' = [u \in Callers |-> "idle"] /\ goal' = [u \in Callers |-> "join"]
    /\ before' = [u \in Callers |-> 0]
    /\ connected' = FALSE
    /\ UNCHANGED <<conns, beats, tried>>

\* A nil dereference in any goroutine.
Crash == Vanish("crashed")

\* Connect up to its handshake: the socket, its read loop under the context of
\* this moment, and pongLoop.
Dial(u) ==
    /\ op[u] = "dial" /\ conns < MaxConns
    /\ server' = TRUE
    /\ conns' = conns + 1 /\ conn' = conns + 1 /\ open' = open \cup {conns + 1}
    /\ state' = "connecting"
    /\ reader' = [reader EXCEPT ![conns + 1] = ctx]
    /\ loop' = Start("pong", conns + 1)
    /\ Goto(u, "ping")
    /\ UNCHANGED <<ctx, cancelled, room, net, ui, goal, before, process>>

\* ResolveUDPAddr fails and nothing is stored, or NewUDPConn does, by when the
\* server's address has been.
DialFails(u) ==
    /\ op[u] = "dial"
    /\ server' \in {server, TRUE}
    /\ Goto(u, "idle")
    /\ UNCHANGED <<ctx, cancelled, conn, conns, open, state, room, loops, net,
                   ui, goal, before, process>>

\* PingServer notes pongSeq and sends its Ping, which may fail, and does without
\* a connection.
PingServer(u) ==
    /\ op[u] = "ping"
    /\ before' = [before EXCEPT ![u] = Len(pongs)]
    /\ \/ /\ conn # NoConn /\ server /\ conn \in open
          /\ wire' = [wire EXCEPT ![conn] = @ + 1]
          /\ Goto(u, "wait") /\ UNCHANGED goal
       \/ Begin(u, "cancel", "fail") /\ UNCHANGED wire
    /\ UNCHANGED <<core, loops, handler, pongCh, pongs, beats, ui, process>>

\* PingServer sees pongSeq move: the handshake is done, heartbeatLoop starts.
\* The connection is the one Connect made (c.conn, unless another Connect
\* came in between).
Handshaken(u) ==
    /\ op[u] = "wait" /\ Len(pongs) > before[u]
    /\ loop' = IF conn = NoConn THEN loop ELSE Start("beat", conn)
    /\ connected' = TRUE
    /\ before' = [before EXCEPT ![u] = 0]
    /\ Goto(u, "enter")
    /\ UNCHANGED <<core, reader, net, tried, goal, process>>

\* Mutant: no deadline, only the context ends the wait.
HandshakeFails_NoDeadline(u) ==
    /\ op[u] = "wait" /\ Len(pongs) <= before[u] /\ ctx \in cancelled
    /\ before' = [before EXCEPT ![u] = 0]
    /\ Begin(u, "cancel", "fail")
    /\ UNCHANGED <<core, loops, net, ui, process>>

\* The deadline passes, or the context is cancelled while PingServer polls.
HandshakeFails(u) ==
    /\ op[u] = "wait" /\ Len(pongs) <= before[u]
    /\ before' = [before EXCEPT ![u] = 0]
    /\ Begin(u, "cancel", "fail")
    /\ UNCHANGED <<core, loops, net, ui, process>>

\* JoinRoom: the request may fail to be sent. autoConnect has no room to join
\* when the last session had none.
JoinRoom(u) ==
    /\ op[u] = "enter"
    /\ IF conn = NoConn THEN Crash ELSE
       /\ Goto(u, "idle")
       /\ \/ u = "auto" /\ UNCHANGED <<room, state>>
          \/ room' = TRUE /\ UNCHANGED state
          \/ room' = TRUE /\ state' = "joined" /\ conn \in open
       /\ UNCHANGED <<ctx, cancelled, conn, conns, open, server, loops, net, ui,
                      goal, before, process>>

\* LeaveRoom, the first thing Disconnect does. (What it does to the punches, the
\* channels and the peers is in PeerChannels.)
LeaveRoom(u) ==
    /\ op[u] = "leave"
    /\ IF server /\ room /\ conn = NoConn THEN Crash ELSE
       /\ room' = FALSE
       /\ state' = IF conn # NoConn THEN "joined" ELSE "disconnected"
       /\ Goto(u, "cancel")
       /\ UNCHANGED <<ctx, cancelled, conn, conns, open, server, loops, net, ui,
                      goal, before, process>>

\* c.cancel()
Cancel(u) ==
    /\ op[u] = "cancel"
    /\ cancelled' = cancelled \cup {ctx}
    /\ Goto(u, "close")
    /\ UNCHANGED <<ctx, conn, conns, open, server, state, room, loops, net, ui,
                   goal, before, process>>

\* c.conn.Close(): what is on its way to the socket is gone with it.
CloseConn(u) ==
    /\ op[u] = "close"
    /\ open' = open \ {conn}
    /\ wire' = IF conn = NoConn THEN wire ELSE [wire EXCEPT ![conn] = 0]
    /\ Goto(u, "nil")
    /\ UNCHANGED <<ctx, cancelled, conn, conns, server, state, room, loops, handler,
                   pongCh, pongs, beats, ui, goal, before, process>>

\* c.conn = nil, c.serverAddr = nil, and the state, whose change the front end
\* is told of.
ForgetConn(u) ==
    /\ op[u] = "nil"
    /\ conn' = NoConn /\ server' = FALSE /\ state' = "disconnected"
    /\ connected' = FALSE
    /\ Goto(u, "renew")
    /\ UNCHANGED <<ctx, cancelled, conns, open, room, loops, net, tried, goal,
                   before, process>>

\* Mutant: the cancelled context is kept.
Renew_Same(u) ==
    /\ op[u] = "renew"
    /\ Begin(u, IF goal[u] = "join" THEN "dial" ELSE "idle", "join")
    /\ UNCHANGED <<core, loops, net, ui, before, process>>

\* A new context for the next Connect, which doJoin goes on to.
Renew(u) ==
    /\ op[u] = "renew"
    /\ ctx' = ctx + 1
    /\ Begin(u, IF goal[u] = "join" THEN "dial" ELSE "idle", "join")
    /\ UNCHANGED <<cancelled, conn, conns, open, server, state, room, loops, net,
                   ui, before, process>>

\* shutdown, Close: the application ends, whatever else is going on. (It leaves
\* the room, cancels and closes the socket; nothing runs after it.)
Close == Vanish("exited")

----------------------------------------------------------------------------
(* The read loop of a socket and dispatch. *)

\* A Ping's answer is read, and dispatch runs for it in a goroutine. (A Ping
\* or an answer that is lost is one this never happens to.)
ReadPacket(c) ==
    /\ reader[c] # 0 /\ c \in open /\ wire[c] > 0
    /\ wire' = [wire EXCEPT ![c] = @ - 1]
    /\ handler' = [handler EXCEPT ![c] = @ + 1]
    /\ UNCHANGED <<core, loops, pongCh, pongs, beats, ui, ops, process>>

\* Mutant: the read loop looks at c.ctx, as the other loops do.
ReadLoopEnds_OfClient(c) ==
    /\ reader[c] # 0 /\ ctx \in cancelled
    /\ reader' = [reader EXCEPT ![c] = 0]
    /\ UNCHANGED <<core, loop, net, ui, ops, process>>

\* The read loop finds the context it was started with cancelled.
ReadLoopEnds(c) ==
    /\ reader[c] \in cancelled
    /\ reader' = [reader EXCEPT ![c] = 0]
    /\ UNCHANGED <<core, loop, net, ui, ops, process>>

\* Mutant: a blocking send, which waits for room in pongCh.
DispatchPong_Blocking(c) ==
    /\ handler[c] > 0 /\ Len(pongCh) < PongCap
    /\ handler' = [handler EXCEPT ![c] = @ - 1]
    /\ pongCh' = Append(pongCh, c)
    /\ UNCHANGED <<core, loops, wire, pongs, beats, ui, ops, process>>

\* dispatch: a Pong that finds pongCh full is dropped.
DispatchPong(c) ==
    /\ handler[c] > 0
    /\ handler' = [handler EXCEPT ![c] = @ - 1]
    /\ pongCh' = IF Len(pongCh) < PongCap THEN Append(pongCh, c) ELSE pongCh
    /\ UNCHANGED <<core, loops, wire, pongs, beats, ui, ops, process>>

----------------------------------------------------------------------------
(* The background loops. *)

Move(l, at, on) == loop' = [loop EXCEPT ![l] = [at |-> at, on |-> on]]

\* The head of a round: select evaluates c.ctx.Done() now.
EnterSelect(l) ==
    /\ loop[l].at = "top"
    /\ Move(l, "select", ctx)
    /\ UNCHANGED <<core, reader, net, ui, ops, process>>

\* The context this round waits for is done.
LoopEnds(l) ==
    /\ loop[l].at = "select" /\ loop[l].on \in cancelled
    /\ Move(l, "none", 0)
    /\ UNCHANGED <<core, reader, net, ui, ops, process>>

\* pongLoop takes the oldest Pong ...
TakePong(l) ==
    /\ l[1] = "pong" /\ loop[l].at = "select" /\ pongCh # <<>>
    /\ Move(l, "body", Head(pongCh))
    /\ pongCh' = Tail(pongCh)
    /\ UNCHANGED <<core, reader, wire, handler, pongs, beats, ui, ops, process>>

\* ... and counts it, unless by its time stamp it is older than 30 s.
CountPong(l) ==
    /\ l[1] = "pong" /\ loop[l].at = "body"
    /\ pongs' = Append(pongs, loop[l].on) \/ pongs' = pongs
    /\ Move(l, "top", 0)
    /\ UNCHANGED <<core, reader, wire, handler, pongCh, beats, ui, ops, process>>

\* The ticker of heartbeatLoop fires.
Tick(l) ==
    /\ l[1] = "beat" /\ loop[l].at = "select" /\ beats < MaxBeats
    /\ beats' = beats + 1
    /\ Move(l, "body", 0)
    /\ UNCHANGED <<core, reader, wire, handler, pongCh, pongs, ui, ops, process>>

\* heartbeatLoop sends its Ping by the connection of this moment, an error is
\* only logged; sendPeerMetrics goes the same way and has no answer. When there
\* is no connection c.conn is nil, and SendPacket dereferences it.
Heartbeat(l) ==
    /\ l[1] = "beat" /\ loop[l].at = "body"
    /\ IF conn = NoConn THEN Crash ELSE
       /\ Move(l, "top", 0)
       /\ wire' = IF conn \in open THEN [wire EXCEPT ![conn] = @ + 1] ELSE wire
       /\ UNCHANGED <<core, reader, handler, pongCh, pongs, beats, ui, ops, process>>

----------------------------------------------------------------------------
OpStep(u) ==
    \/ Dial(u) \/ DialFails(u) \/ PingServer(u) \/ Handshaken(u) \/ HandshakeFails(u)
    \/ JoinRoom(u) \/ LeaveRoom(u)
    \/ Cancel(u) \/ CloseConn(u) \/ ForgetConn(u) \/ Renew(u)

LoopStep(l) ==
    \/ EnterSelect(l) \/ LoopEnds(l)
    \/ TakePong(l) \/ CountPong(l) \/ Heartbeat(l)

Next ==
    /\ process = "up"
    /\ \/ doJoin \/ autoConnect \/ doDisconnect \/ Close
       \/ \E u \in Callers : OpStep(u)
       \/ \E c \in Conns : \/ ReadPacket(c) \/ ReadLoopEnds(c) \/ DispatchPong(c)
       \/ \E l \in DOMAIN loop : LoopStep(l) \/ Tick(l)

\* Only this is assumed: a call that can go on does (PingServer's deadline is
\* what ends its wait), so does a goroutine of dispatch, and a read loop whose
\* context is done looks at it, which it does at least once a second. Nothing is
\* assumed of the network, of the tickers, of the user or of the other loops: the
\* pongLoop that takes from pongCh may be gone.
Fairness ==
    /\ \A u \in Callers : WF_vars(process = "up" /\ OpStep(u))
    /\ \A c \in Conns : /\ WF_vars(process = "up" /\ ReadLoopEnds(c))
                         /\ WF_vars(process = "up" /\ DispatchPong(c))

Spec == Init /\ [][Next]_vars
FairSpec == Spec /\ Fairness

----------------------------------------------------------------------------
AtRest == process = "up" /\ \A u \in Callers : op[u] = "idle"

\* A loop that is in a round, or waits for a context nobody cancelled.
Alive(l) ==
    \/ loop[l].at \in {"top", "body"}
    \/ loop[l].at = "select" /\ loop[l].on \notin cancelled

\* No socket is lost: the only one ever open is the one c.conn holds, so that
\* the next teardown closes it (client.go:238, HelloWorld.vue:164).
SocketsOwned == open \subseteq {conn}

\* A client at rest with a connection has all its machinery running: a context
\* that is not cancelled, the socket open and read, and both loops of this
\* connection. One without a connection shows it, and can connect again. The
\* read loops of former connections have all been told to end.
Served ==
    AtRest =>
      /\ ctx \notin cancelled
      /\ conn # NoConn => /\ conn \in open /\ reader[conn] = ctx
                          /\ \A k \in Kinds : Alive(<<k, conn>>)
                          /\ connected
      /\ conn = NoConn => state = "disconnected" /\ ~connected
      /\ \A c \in Conns \ {conn} : reader[c] \in {0} \cup cancelled

\* "A Pong confirms that the server is really reachable": the Pong that ends
\* the handshake answers a Ping of this connection (client.go:251).
HandshakeGenuine ==
    [][\A u \in Callers :
         op[u] = "wait" /\ op'[u] = "enter" =>
           \E i \in before[u] + 1 .. Len(pongs) : pongs[i] = conn]_vars

\* Connect, Disconnect and Close return, whether the server answers or not.
OperationsReturn == \A u \in Callers : []<>(op[u] = "idle" \/ process # "up")

\* The read loop of a connection that was torn down ends; it does not go on
\* beside that of the next connection (netconn/udp.go:102).
OldReadLoopsEnd ==
    \A c \in Conns : []<>(c <= conns /\ c # conn => reader[c] = 0 \/ process # "up")

\* Every goroutine of dispatch that brings a Pong returns, also when pongCh is full
\* and its one consumer has ended with the connection (client.go:726): none piles
\* up behind those nobody takes.
DispatchReturns == \A c \in Conns : []<>(handler[c] = 0 \/ process # "up")

----------------------------------------------------------------------------
(* The inductive invariant of SocketsOwned and Served, for a front end that *)
(* takes its operations one at a time.                                      *)

OneOperation == \A u, v \in Callers : op[u] # "idle" /\ op[v] # "idle" => u = v

\* A new context is made for each connection that is torn down, so that there is
\* one left for the next.
Teardown == \E u \in Callers : op[u] \in {"cancel", "close", "nil", "renew"}
ContextsCounted ==
    /\ conn <= conns /\ ctx <= conns + 1
    /\ conn # NoConn \/ Teardown => ctx <= conns
    /\ \A x \in cancelled : x <= ctx

\* There is no connection, and a new one can be made.
Disconnected ==
    conn = NoConn /\ state = "disconnected" /\ ~connected /\ ctx \notin cancelled

\* There is one, it is read, and its Pongs are counted.
Dialled ==
    /\ conn # NoConn /\ conn \in open /\ ctx \notin cancelled
    /\ reader[conn] = ctx /\ Alive(<<"pong", conn>>)

Established == Dialled /\ Alive(<<"beat", conn>>) /\ connected

\* A read loop that was not told to end is that of this connection.
ReadersEnd ==
    \A c \in Conns : reader[c] \in {0} \cup cancelled \/ (c = conn /\ reader[c] = ctx)

\* A pongLoop that has taken a Pong knows by which socket it came in.
PongsCarried ==
    \A c \in Conns : loop[<<"pong", c>>].at = "body" => loop[<<"pong", c>>].on \in Conns

\* What each step of an operation begins with.
Stage(step) ==
    /\ step = "dial" => Disconnected
    /\ step \in {"ping", "wait"} => Dialled
    /\ step \in {"enter", "leave"} => Established
    /\ step \in {"cancel", "close"} => conn # NoConn
    /\ step \in {"close", "nil"} => ctx \in cancelled
    /\ step = "nil" => open = {}
    /\ step = "renew" => conn = NoConn /\ state = "disconnected" /\ ~connected

LifecycleInv ==
    /\ TypeOK /\ SocketsOwned /\ OneOperation /\ ContextsCounted /\ ReadersEnd
    /\ PongsCarried
    /\ process = "up" => \A u \in Callers : Stage(op[u])
    /\ AtRest => Disconnected \/ Established

============================================================================
