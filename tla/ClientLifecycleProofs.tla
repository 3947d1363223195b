----------------------- MODULE ClientLifecycleProofs -----------------------
(* Theorems about ClientLifecycle, for every number of connections and of    *)
(* heartbeats and every capacity of pongCh. Those about the sockets and the  *)
(* loops assume a front end that takes its operations one at a time.         *)
EXTENDS ClientLifecycle, TLAPS

LEMMA ConnsNumbers ==
    /\ NoConn \notin Conns /\ NoConn = 0
    /\ Conns \subseteq Contexts /\ Conns \subseteq Nat /\ Contexts \subseteq Nat
    BY MaxConnsAssumption DEF Conns, Contexts, NoConn

\* The end of the process leaves nothing behind.
LEMMA VanishClears ==
    ASSUME LifecycleInv, NEW how \in {"crashed", "exited"}, Vanish(how)
    PROVE  LifecycleInv'
<1> USE ConnsNumbers
<1>1. TypeOK'
    <2>1. 1 \in Contexts /\ process' \in {"crashed", "exited"}
        BY MaxConnsAssumption DEF Vanish, Contexts
    <2>2. /\ pongCh' \in Seq(Conns) /\ Len(pongCh') <= PongCap
          /\ pongs' \in Seq(Conns)
        BY PongCapAssumption DEF Vanish
    <2>3. loop' \in [Kinds \X Conns ->
                       [at : {"none", "top", "select", "body"}, on : {0} \cup Contexts]]
        BY DEF Vanish, Idle
    <2>4. /\ conns' = conns /\ beats' = beats /\ tried' = tried
          /\ conns \in 0 .. MaxConns /\ beats \in 0 .. MaxBeats /\ tried \in BOOLEAN
        BY DEF Vanish, LifecycleInv, TypeOK
    <2> QED BY <2>1, <2>2, <2>3, <2>4 DEF TypeOK, Vanish, Steps, Goals, States
<1>2. SocketsOwned' /\ OneOperation' /\ ReadersEnd' /\ PongsCarried'
    BY DEF Vanish, SocketsOwned, OneOperation, ReadersEnd, PongsCarried, Kinds, Idle
<1>3. ContextsCounted'
    BY DEF Vanish, ContextsCounted, Teardown, LifecycleInv, TypeOK
<1>4. process' # "up" /\ ~AtRest'
    BY DEF Vanish, AtRest
<1> QED BY <1>1, <1>2, <1>3, <1>4 DEF LifecycleInv

-----------------------------------------------------------------------------
(* Type correctness *)

LEMMA TypeInit == Init => TypeOK
<1> SUFFICES ASSUME Init  PROVE TypeOK
    OBVIOUS
<1> USE ConnsNumbers
<1>1. ctx \in Contexts /\ conns \in 0 .. MaxConns /\ beats \in 0 .. MaxBeats
    BY MaxConnsAssumption, MaxBeatsAssumption DEF Init, Contexts
<1>2. pongCh \in Seq(Conns) /\ Len(pongCh) <= PongCap /\ pongs \in Seq(Conns)
    BY PongCapAssumption DEF Init
<1>3. loop \in [Kinds \X Conns ->
                  [at : {"none", "top", "select", "body"}, on : {0} \cup Contexts]]
    BY DEF Init, Idle
<1> QED BY <1>1, <1>2, <1>3 DEF Init, TypeOK, States, Steps, Goals

\* What a call of the front end does to the types.
LEMMA TypeOperation ==
    ASSUME LifecycleInv,
           \/ doJoin \/ autoConnect \/ doDisconnect
           \/ \E u \in Callers : OpStep(u)
    PROVE  TypeOK' \/ Crash
<1> USE ConnsNumbers DEF core, loops, net, ui, ops
<1>1. TypeOK
    BY DEF LifecycleInv
<1>2. CASE doJoin \/ autoConnect \/ doDisconnect
    <2>1. \E u \in Callers, step \in {"dial", "leave"}, why \in {"join", "stop"} :
              Begin(u, step, why)
        BY <1>2 DEF doJoin, autoConnect, doDisconnect, Callers
    <2>2. op' \in [Callers -> Steps] /\ goal' \in [Callers -> Goals]
        BY <1>1, <2>1 DEF Begin, Goto, TypeOK, Steps, Goals
    <2>3. tried' \in BOOLEAN /\ UNCHANGED <<core, loops, net, connected, before, process>>
        BY <1>1, <1>2 DEF doJoin, autoConnect, doDisconnect, TypeOK
    <2> QED BY <1>1, <2>2, <2>3 DEF TypeOK
<1>3. ASSUME NEW u \in Callers, Dial(u)  PROVE TypeOK'
    <2>1. conns + 1 \in Conns /\ conns + 1 \in 0 .. MaxConns
        BY <1>1, <1>3, MaxConnsAssumption DEF Dial, TypeOK, Conns
    <2>2. loop' \in [Kinds \X Conns ->
                       [at : {"none", "top", "select", "body"}, on : {0} \cup Contexts]]
        BY <1>1, <1>3 DEF Dial, Start, TypeOK
    <2> QED BY <1>1, <1>3, <2>1, <2>2 DEF Dial, Goto, TypeOK, States, Steps
<1>4. ASSUME NEW u \in Callers, DialFails(u)  PROVE TypeOK'
    <2>1. server' \in BOOLEAN
        BY <1>1, <1>4 DEF DialFails, TypeOK
    <2> QED BY <1>1, <1>4, <2>1 DEF DialFails, Goto, TypeOK, Steps
<1>5. ASSUME NEW u \in Callers, PingServer(u)  PROVE TypeOK'
    <2>1. Len(pongs) \in Nat
        BY <1>1 DEF TypeOK
    <2>2. wire' \in [Conns -> Nat]
        BY <1>1, <1>5 DEF PingServer, TypeOK
    <2> QED BY <1>1, <1>5, <2>1, <2>2 DEF PingServer, Begin, Goto, TypeOK, Steps, Goals
<1>6. ASSUME NEW u \in Callers, Handshaken(u)  PROVE TypeOK'
    <2>1. loop' \in [Kinds \X Conns ->
                       [at : {"none", "top", "select", "body"}, on : {0} \cup Contexts]]
        BY <1>1, <1>6 DEF Handshaken, Start, TypeOK
    <2> QED BY <1>1, <1>6, <2>1 DEF Handshaken, Goto, TypeOK, Steps
<1>7. ASSUME NEW u \in Callers, HandshakeFails(u)  PROVE TypeOK'
    BY <1>1, <1>7 DEF HandshakeFails, Begin, Goto, TypeOK, Steps, Goals
<1>8. ASSUME NEW u \in Callers, JoinRoom(u), ~Crash  PROVE TypeOK'
    BY <1>1, <1>8 DEF JoinRoom, Goto, TypeOK, Steps, States
<1>9. ASSUME NEW u \in Callers, LeaveRoom(u), ~Crash  PROVE TypeOK'
    BY <1>1, <1>9 DEF LeaveRoom, Goto, TypeOK, Steps, States
<1>10. ASSUME NEW u \in Callers, Cancel(u)  PROVE TypeOK'
    BY <1>1, <1>10 DEF Cancel, Goto, TypeOK, Steps
<1>11. ASSUME NEW u \in Callers, CloseConn(u)  PROVE TypeOK'
    BY <1>1, <1>11 DEF CloseConn, Goto, TypeOK, Steps
<1>12. ASSUME NEW u \in Callers, ForgetConn(u)  PROVE TypeOK'
    BY <1>1, <1>12 DEF ForgetConn, Goto, TypeOK, Steps, States
<1>13. ASSUME NEW u \in Callers, Renew(u)  PROVE TypeOK'
    <2>1. ctx <= conns
        BY <1>13 DEF Renew, LifecycleInv, ContextsCounted, Teardown
    <2>2. ctx + 1 \in Contexts
        BY <1>1, <2>1, MaxConnsAssumption DEF TypeOK, Contexts
    <2> QED BY <1>1, <1>13, <2>2 DEF Renew, Begin, Goto, TypeOK, Steps, Goals
<1> QED BY <1>2, <1>3, <1>4, <1>5, <1>6, <1>7, <1>8, <1>9, <1>10, <1>11, <1>12, <1>13 DEF OpStep

\* The read loops and the dispatch of Pongs.
LEMMA TypeReading ==
    ASSUME TypeOK, NEW c \in Conns, ReadPacket(c) \/ ReadLoopEnds(c) \/ DispatchPong(c)
    PROVE  TypeOK'
<1> USE ConnsNumbers DEF core, loops, net, ui, ops
<1>1. CASE ReadPacket(c)
    <2>1. wire' \in [Conns -> Nat] /\ handler' \in [Conns -> Nat]
        BY <1>1 DEF ReadPacket, TypeOK
    <2> QED BY <1>1, <2>1 DEF ReadPacket, TypeOK
<1>2. CASE ReadLoopEnds(c)
    BY <1>2 DEF ReadLoopEnds, TypeOK
<1>3. CASE DispatchPong(c)
    <2>1. handler' \in [Conns -> Nat]
        BY <1>3 DEF DispatchPong, TypeOK
    <2>2. pongCh' \in Seq(Conns) /\ Len(pongCh') <= PongCap
        BY <1>3, PongCapAssumption DEF DispatchPong, TypeOK
    <2> QED BY <1>3, <2>1, <2>2 DEF DispatchPong, TypeOK
<1> QED BY <1>1, <1>2, <1>3

\* A background loop that moves on keeps its type.
LEMMA MoveTyped ==
    ASSUME TypeOK, NEW l \in DOMAIN loop, NEW at \in {"none", "top", "select", "body"},
           NEW on \in {0} \cup Contexts, Move(l, at, on)
    PROVE  loop' \in [Kinds \X Conns ->
                        [at : {"none", "top", "select", "body"}, on : {0} \cup Contexts]]
    BY DEF Move, TypeOK

LEMMA LoopName ==
    ASSUME TypeOK, NEW l \in DOMAIN loop
    PROVE  \E k \in Kinds, c \in Conns : l = <<k, c>>
<1>1. l \in Kinds \X Conns
    BY DEF TypeOK
<1> QED BY <1>1

\* A heartbeat goes out by the connection there is.
LEMMA HeartbeatWire ==
    ASSUME TypeOK, NEW l, ~Crash, Heartbeat(l)
    PROVE  conn \in Conns /\ wire' \in [Conns -> Nat]
<1>1. conn \in Conns
    BY DEF TypeOK, Heartbeat
<1>2. CASE conn \in open
    <2>1. wire' = [wire EXCEPT ![conn] = @ + 1]
        BY <1>2 DEF Heartbeat
    <2> QED BY <1>1, <2>1 DEF TypeOK
<1>3. CASE conn \notin open
    BY <1>3 DEF Heartbeat, TypeOK
<1> QED BY <1>1, <1>2, <1>3

LEMMA TypeLoop ==
    ASSUME TypeOK, PongsCarried, NEW l \in DOMAIN loop, LoopStep(l) \/ Tick(l)
    PROVE  TypeOK' \/ Crash
<1> USE ConnsNumbers DEF core, loops, net, ui, ops
<1>1. CASE EnterSelect(l)
    BY <1>1, MoveTyped DEF EnterSelect, TypeOK
<1>2. CASE LoopEnds(l)
    BY <1>2, MoveTyped DEF LoopEnds, TypeOK
<1>3. CASE TakePong(l)
    <2>1. Head(pongCh) \in Conns /\ Tail(pongCh) \in Seq(Conns) /\ Len(Tail(pongCh)) <= PongCap
        BY <1>3, PongCapAssumption DEF TakePong, TypeOK
    <2> QED BY <1>3, <2>1, MoveTyped DEF TakePong, TypeOK
<1>4. CASE CountPong(l)
    <2>0. PICK k \in Kinds, c \in Conns : l = <<k, c>>
        BY LoopName
    <2>1. l = <<"pong", c>>
        BY <1>4, <2>0 DEF CountPong
    <2>2. loop[l].on \in Conns
        BY <1>4, <2>1 DEF CountPong, PongsCarried
    <2>3. pongs' \in Seq(Conns)
        <3>1. pongs \in Seq(Conns) /\ \A d \in Conns : Append(pongs, d) \in Seq(Conns)
            BY DEF TypeOK
        <3> QED BY <1>4, <2>2, <3>1 DEF CountPong
    <2>4. loop' \in [Kinds \X Conns ->
                       [at : {"none", "top", "select", "body"}, on : {0} \cup Contexts]]
        BY <1>4, MoveTyped DEF CountPong
    <2> QED BY <1>4, <2>3, <2>4 DEF CountPong, TypeOK
<1>5. CASE Tick(l)
    <2>1. beats + 1 \in 0 .. MaxBeats
        BY <1>5, MaxBeatsAssumption DEF Tick, TypeOK
    <2> QED BY <1>5, <2>1, MoveTyped DEF Tick, TypeOK
<1>6. CASE Heartbeat(l) /\ ~Crash
    <2>1. wire' \in [Conns -> Nat]
        BY <1>6, HeartbeatWire
    <2>2. loop' \in [Kinds \X Conns ->
                       [at : {"none", "top", "select", "body"}, on : {0} \cup Contexts]]
        BY <1>6, MoveTyped DEF Heartbeat
    <2>3. UNCHANGED <<core, reader, handler, pongCh, pongs, beats, ui, ops, process>>
        BY <1>6 DEF Heartbeat
    <2> QED BY <2>1, <2>2, <2>3 DEF TypeOK
<1> QED BY <1>1, <1>2, <1>3, <1>4, <1>5, <1>6 DEF LoopStep

LEMMA CarriedNext ==
    LifecycleInv /\ [Next]_vars => PongsCarried' \/ Crash \/ Close
<1> SUFFICES ASSUME LifecycleInv, [Next]_vars, ~Crash, ~Close  PROVE PongsCarried'
    OBVIOUS
<1> USE DEF core, loops, net, ui, ops
<1>1. TypeOK /\ PongsCarried
    BY DEF LifecycleInv
<1>2. CASE UNCHANGED loop
    BY <1>1, <1>2 DEF PongsCarried
<1>3. ASSUME NEW k \in Kinds, NEW c, loop' = Start(k, c)  PROVE PongsCarried'
    BY <1>1, <1>3 DEF PongsCarried, Start, TypeOK, Kinds
<1>4. ASSUME NEW l \in DOMAIN loop, LoopStep(l) \/ Tick(l)  PROVE PongsCarried'
    <2>1. \E at, on : Move(l, at, on) /\ (l[1] = "pong" /\ at = "body" => on \in Conns)
        <3>1. CASE TakePong(l)
            BY <1>1, <3>1 DEF TakePong, TypeOK
        <3> QED BY <1>4, <3>1 DEF LoopStep, EnterSelect, LoopEnds, CountPong, Heartbeat, Tick
    <2> QED BY <1>1, <2>1 DEF Move, PongsCarried, TypeOK, Kinds
<1>5. Kinds = {"pong", "beat"}
    BY DEF Kinds
<1> QED
    BY <1>2, <1>3, <1>4, <1>5
    DEF Next, vars, doJoin, autoConnect, doDisconnect, OpStep, Dial, DialFails, PingServer,
        Handshaken, HandshakeFails, JoinRoom, LeaveRoom, Cancel, CloseConn, ForgetConn, Renew,
        ReadPacket, ReadLoopEnds, DispatchPong

-----------------------------------------------------------------------------
(* Operations one at a time                                                  *)

\* The caller that is in its operation, or begins one when none is, moves on;
\* the others stay idle.
LEMMA OneMoves ==
    ASSUME LifecycleInv, process = "up", process' = "up", NEW u \in Callers, NEW step \in Steps,
           \A v \in Callers : v # u => op[v] = "idle",
           op' = [op EXCEPT ![u] = step],
           Stage(step)', step = "idle" => (Disconnected \/ Established)'
    PROVE  /\ OneOperation'
           /\ \A v \in Callers : Stage(op[v])'
           /\ AtRest' => (Disconnected \/ Established)'
           /\ Teardown' <=> step \in {"cancel", "close", "nil", "renew"}
<1>1. \A v \in Callers : op'[v] = IF v = u THEN step ELSE "idle"
    BY DEF LifecycleInv, TypeOK
<1>2. ASSUME NEW v \in Callers  PROVE Stage(op[v])'
    BY <1>1 DEF Stage
<1> QED BY <1>1, <1>2 DEF OneOperation, AtRest, Teardown

\* Nobody else is in an operation.
LEMMA OthersIdle ==
    ASSUME LifecycleInv, NEW u \in Callers, op[u] # "idle"
    PROVE  \A v \in Callers : v # u => op[v] = "idle"
    BY DEF LifecycleInv, OneOperation

\* A client without a connection has no socket and no read loop that goes on.
LEMMA NothingOpen ==
    ASSUME LifecycleInv, conn = NoConn
    PROVE  open = {} /\ \A c \in Conns : reader[c] \in {0} \cup cancelled
    BY ConnsNumbers DEF LifecycleInv, TypeOK, SocketsOwned, ReadersEnd

\* doJoin, autoConnect and doDisconnect begin when the client is at rest.
LEMMA BeginNext ==
    ASSUME ~Overlap, LifecycleInv, process = "up", doJoin \/ autoConnect \/ doDisconnect
    PROVE  /\ SocketsOwned' /\ OneOperation' /\ ContextsCounted' /\ ReadersEnd'
           /\ \A u \in Callers : Stage(op[u])'
           /\ AtRest' => (Disconnected \/ Established)'
<1>1. /\ \A v \in Callers : op[v] = "idle"
      /\ UNCHANGED <<core, loops, connected, process>>
    BY DEF doJoin, autoConnect, doDisconnect, MayBegin, ui, Callers
<1>2. Disconnected \/ Established
    BY <1>1 DEF LifecycleInv, AtRest
<1>3. PICK u \in Callers, step \in {"dial", "leave"} :
          /\ op' = [op EXCEPT ![u] = step]
          /\ IF step = "dial" THEN Disconnected ELSE Established
    <2>1. CASE doJoin
        BY <1>2, <2>1 DEF doJoin, Begin, Goto, Callers, Disconnected, Established
    <2>2. CASE autoConnect
        <3>1. conn = NoConn
            BY <2>2 DEF autoConnect, LifecycleInv, ContextsCounted, TypeOK, Conns, NoConn
        <3>2. Disconnected
            BY <1>2, <3>1 DEF Established, Dialled
        <3> QED BY <2>2, <3>2 DEF autoConnect, Begin, Goto, Callers
    <2>3. CASE doDisconnect
        BY <1>2, <2>3 DEF doDisconnect, Begin, Goto, Callers, Disconnected, Established
    <2> QED BY <2>1, <2>2, <2>3
<1>4. Stage(step)'
    BY <1>1, <1>3 DEF Stage, Disconnected, Established, Dialled, Alive, core, loops
<1>5. step \in Steps /\ step # "idle"
    BY DEF Steps
<1>6. /\ OneOperation' /\ \A v \in Callers : Stage(op[v])'
      /\ AtRest' => (Disconnected \/ Established)'
      /\ ~Teardown'
    BY <1>1, <1>3, <1>4, <1>5, OneMoves
<1>7. SocketsOwned' /\ ContextsCounted' /\ ReadersEnd'
    BY <1>1, <1>6 DEF LifecycleInv, SocketsOwned, ContextsCounted, ReadersEnd, core, loops
<1> QED BY <1>6, <1>7

-----------------------------------------------------------------------------
(* The steps of an operation                                                 *)

\* What holds when an operation has come to a step: ContextsCounted with the
\* step in place of Teardown, and the rest of what is not about types.
Counted(step) ==
    /\ conn <= conns /\ ctx <= conns + 1
    /\ conn # NoConn \/ step \in {"cancel", "close", "nil", "renew"} => ctx <= conns
    /\ \A x \in cancelled : x <= ctx

Lands(step) ==
    /\ SocketsOwned /\ Counted(step) /\ ReadersEnd /\ Stage(step)
    /\ step = "idle" => Disconnected \/ Established

\* A caller lands on a step; what it began with holds of the one it was at.
LEMMA LandsAt ==
    ASSUME LifecycleInv, process = "up", NEW u \in Callers, op[u] # "idle"
    PROVE  SocketsOwned /\ Counted(op[u]) /\ ReadersEnd /\ Stage(op[u])
<1>1. Teardown <=> op[u] \in {"cancel", "close", "nil", "renew"}
    BY OthersIdle DEF Teardown
<1> QED BY <1>1 DEF LifecycleInv, ContextsCounted, Counted

LEMMA LandsNext ==
    ASSUME LifecycleInv, process = "up", process' = "up", NEW u \in Callers, NEW step \in Steps,
           op[u] # "idle", Goto(u, step), Lands(step)'
    PROVE  /\ SocketsOwned' /\ OneOperation' /\ ContextsCounted' /\ ReadersEnd'
           /\ \A v \in Callers : Stage(op[v])'
           /\ AtRest' => (Disconnected \/ Established)'
<1>1. \A v \in Callers : v # u => op[v] = "idle"
    BY OthersIdle
<1>2. /\ OneOperation' /\ \A v \in Callers : Stage(op[v])'
      /\ AtRest' => (Disconnected \/ Established)'
      /\ Teardown' <=> step \in {"cancel", "close", "nil", "renew"}
    BY <1>1, OneMoves DEF Lands, Goto
<1> QED BY <1>2 DEF Lands, Counted, ContextsCounted

\* A new socket becomes the connection.
LEMMA DialLands ==
    ASSUME LifecycleInv, process = "up", NEW u \in Callers, Dial(u)
    PROVE  Lands("ping")'
<1>1. TypeOK /\ Counted("dial") /\ Disconnected
    BY LandsAt DEF Dial, LifecycleInv, Stage
<1>2. open = {} /\ \A c \in Conns : reader[c] \in {0} \cup cancelled
    BY <1>1, NothingOpen DEF Disconnected
<1>3. conns + 1 \in Conns /\ conns + 1 # NoConn
    BY <1>1, MaxConnsAssumption DEF Dial, TypeOK, Conns, NoConn
<1>4. conn' = conns + 1 /\ conns' = conns + 1 /\ open' = {conns + 1}
    BY <1>2 DEF Dial
<1>5. ctx' = ctx /\ cancelled' = cancelled /\ ctx \notin cancelled
    BY <1>1 DEF Dial, Disconnected
<1>6. \A c \in Conns : reader'[c] = IF c = conns + 1 THEN ctx ELSE reader[c]
    BY <1>1, <1>3 DEF Dial, TypeOK
<1>7. Alive(<<"pong", conn>>)'
    <2>1. <<"pong", conns + 1>> \in Kinds \X Conns
        BY <1>3 DEF Kinds
    <2> QED BY <1>1, <1>4, <2>1 DEF Dial, Start, TypeOK, Alive
<1>8. Dialled'
    BY <1>3, <1>4, <1>5, <1>6, <1>7 DEF Dialled, NoConn
<1>9. SocketsOwned' /\ ReadersEnd'
    BY <1>2, <1>4, <1>5, <1>6 DEF SocketsOwned, ReadersEnd
<1>10. Counted("ping")'
    <2>1. conns \in Nat /\ ctx \in Nat
        BY <1>1 DEF TypeOK, Contexts
    <2>2. ctx <= conns + 1 /\ \A x \in cancelled : x <= ctx
        BY <1>1 DEF Counted
    <2> QED BY <2>1, <2>2, <1>4, <1>5 DEF Counted
<1> QED BY <1>8, <1>9, <1>10 DEF Lands, Stage

\* The handshake is done: the heartbeat begins beside the rest.
LEMMA HandshakenLands ==
    ASSUME LifecycleInv, process = "up", NEW u \in Callers, Handshaken(u)
    PROVE  Lands("enter")'
<1>1. TypeOK /\ SocketsOwned /\ ReadersEnd /\ Counted("wait") /\ Dialled
    BY LandsAt DEF Handshaken, LifecycleInv, Stage
<1>2. UNCHANGED <<core, reader>> /\ connected'
    BY DEF Handshaken
<1>3. Alive(<<"pong", conn>>)' /\ Alive(<<"beat", conn>>)'
    <2>1. <<"pong", conn>> \in Kinds \X Conns /\ <<"beat", conn>> \in Kinds \X Conns
        BY <1>1 DEF Kinds, TypeOK, Dialled
    <2>2. loop' = Start("beat", conn)
        BY <1>1 DEF Handshaken, Dialled
    <2>3. /\ loop'[<<"beat", conn>>].at = "top"
          /\ loop'[<<"pong", conn>>] = loop[<<"pong", conn>>]
        BY <1>1, <2>1, <2>2 DEF Start, TypeOK
    <2> QED BY <1>1, <1>2, <2>3 DEF Alive, Dialled, core
<1>4. Established'
    BY <1>1, <1>2, <1>3 DEF Established, Dialled, core
<1> QED BY <1>1, <1>2, <1>4 DEF Lands, Stage, SocketsOwned, ReadersEnd, Counted, core

\* The steps that end a connection: none leaves a socket or a read loop behind.
LEMMA CloseLands ==
    ASSUME LifecycleInv, process = "up", NEW u \in Callers
    PROVE  /\ Cancel(u) => Lands("close")'
           /\ CloseConn(u) => Lands("nil")'
           /\ ForgetConn(u) => Lands("renew")'
<1>1. ASSUME Cancel(u)  PROVE Lands("close")'
    <2>1. SocketsOwned /\ ReadersEnd /\ Counted("cancel") /\ conn # NoConn /\ TypeOK
        BY <1>1, LandsAt DEF Cancel, Stage, LifecycleInv
    <2>2. Counted("close")'
        BY <1>1, <2>1 DEF Cancel, Counted, TypeOK, Contexts
    <2>3. SocketsOwned' /\ ReadersEnd' /\ Stage("close")'
        BY <1>1, <2>1 DEF Cancel, Stage, SocketsOwned, ReadersEnd, loops
    <2> QED BY <2>2, <2>3 DEF Lands
<1>2. ASSUME CloseConn(u)  PROVE Lands("nil")'
    <2>1. /\ SocketsOwned /\ ReadersEnd /\ Counted("close")
          /\ ctx \in cancelled
        BY <1>2, LandsAt DEF CloseConn, Stage
    <2>2. open' = {}
        BY <1>2, <2>1 DEF CloseConn, SocketsOwned
    <2>3. UNCHANGED <<ctx, cancelled, conn, conns, reader>>
        BY <1>2 DEF CloseConn, loops
    <2> QED BY <2>1, <2>2, <2>3 DEF Lands, Stage, SocketsOwned, ReadersEnd, Counted
<1>3. ASSUME ForgetConn(u)  PROVE Lands("renew")'
    <2>1. /\ ReadersEnd /\ Counted("nil") /\ TypeOK
          /\ ctx \in cancelled /\ open = {}
        BY <1>3, LandsAt DEF ForgetConn, Stage, LifecycleInv
    <2>2. \A c \in Conns : reader[c] \in {0} \cup cancelled
        BY <2>1 DEF ReadersEnd
    <2>3. /\ UNCHANGED <<ctx, cancelled, conns, open, reader>>
          /\ conn' = NoConn /\ state' = "disconnected" /\ ~connected'
        BY <1>3 DEF ForgetConn, loops
    <2>4. NoConn <= conns
        BY <2>1 DEF TypeOK, NoConn
    <2> QED BY <2>1, <2>2, <2>3, <2>4 DEF Lands, Stage, SocketsOwned, ReadersEnd, Counted
<1> QED BY <1>1, <1>2, <1>3

\* The context a new connection is made under was never cancelled.
LEMMA RenewLands ==
    ASSUME LifecycleInv, process = "up", NEW u \in Callers, Renew(u)
    PROVE  Lands("dial")' /\ Lands("idle")'
<1>1. /\ SocketsOwned /\ ReadersEnd /\ Counted("renew") /\ TypeOK
      /\ conn = NoConn /\ state = "disconnected" /\ ~connected
    BY LandsAt DEF Renew, Stage, LifecycleInv
<1>2. UNCHANGED <<cancelled, conn, conns, open, state, reader, connected>> /\ ctx' = ctx + 1
    BY DEF Renew, loops, ui
<1>3. ctx \in Nat /\ \A x \in cancelled : x \in Nat
    BY <1>1 DEF TypeOK, Contexts
<1>4. ctx' \notin cancelled'
    BY <1>1, <1>2, <1>3 DEF Counted
<1>5. \A c \in Conns : reader[c] \in {0} \cup cancelled
    BY <1>1, NothingOpen
<1>6. Counted("dial")' /\ Counted("idle")'
    BY <1>1, <1>2, <1>3 DEF Counted, TypeOK
<1>7. SocketsOwned' /\ ReadersEnd' /\ Disconnected'
    BY <1>1, <1>2, <1>4, <1>5 DEF SocketsOwned, ReadersEnd, Disconnected
<1> QED BY <1>6, <1>7 DEF Lands, Stage

\* The steps that leave the connection as it is.
LEMMA ConnKeptLands ==
    ASSUME LifecycleInv, process = "up", NEW u \in Callers, ~Crash,
           UNCHANGED <<ctx, cancelled, conn, conns, open, loops>>
    PROVE  /\ DialFails(u) => Lands("idle")'
           /\ PingServer(u) => Lands("wait")' /\ Lands("cancel")'
           /\ HandshakeFails(u) => Lands("cancel")'
           /\ JoinRoom(u) => Lands("idle")'
           /\ LeaveRoom(u) => Lands("cancel")'
<1>1. TypeOK /\ SocketsOwned /\ ReadersEnd
    BY DEF LifecycleInv
<1>2. SocketsOwned' /\ ReadersEnd'
    BY <1>1 DEF SocketsOwned, ReadersEnd, loops
<1>3. ASSUME Disconnected, UNCHANGED <<state, connected>>  PROVE Disconnected'
    BY <1>3 DEF Disconnected
<1>4. ASSUME Dialled  PROVE Dialled' /\ conn # NoConn
    BY <1>4 DEF Dialled, Alive, loops
<1>5. ASSUME Established, connected' = connected  PROVE Established'
    BY <1>4, <1>5 DEF Established, Alive, loops
<1>6. ASSUME DialFails(u)  PROVE Lands("idle")'
    <2>1. Counted("dial") /\ Disconnected
        BY <1>6, LandsAt DEF DialFails, Stage
    <2>2. Disconnected' /\ Counted("idle")'
        BY <1>3, <1>6, <2>1 DEF DialFails, ui, Counted
    <2> QED BY <1>2, <2>2 DEF Lands, Stage
<1>7. ASSUME PingServer(u)  PROVE Lands("wait")' /\ Lands("cancel")'
    <2>1. Counted("ping") /\ Dialled
        BY <1>7, LandsAt DEF PingServer, Stage
    <2>2. Dialled' /\ conn' # NoConn /\ Counted("wait")' /\ Counted("cancel")'
        BY <1>4, <2>1 DEF Counted
    <2> QED BY <1>2, <2>2 DEF Lands, Stage
<1>8. ASSUME HandshakeFails(u)  PROVE Lands("cancel")'
    <2>1. Counted("wait") /\ Dialled
        BY <1>8, LandsAt DEF HandshakeFails, Stage
    <2>2. conn' # NoConn /\ Counted("cancel")'
        BY <1>4, <2>1 DEF Counted
    <2> QED BY <1>2, <2>2 DEF Lands, Stage
<1>9. ASSUME JoinRoom(u)  PROVE Lands("idle")'
    <2>1. Counted("enter") /\ Established
        BY <1>9, LandsAt DEF JoinRoom, Stage
    <2>2. connected' = connected
        BY <1>9, <2>1 DEF JoinRoom, ui, Established, Dialled
    <2>3. Established' /\ Counted("idle")'
        BY <1>5, <2>1, <2>2 DEF Counted
    <2> QED BY <1>2, <2>3 DEF Lands, Stage
<1>10. ASSUME LeaveRoom(u)  PROVE Lands("cancel")'
    <2>1. Counted("leave") /\ Established
        BY <1>10, LandsAt DEF LeaveRoom, Stage
    <2>2. conn' # NoConn /\ Counted("cancel")'
        BY <2>1 DEF Counted, Established, Dialled
    <2> QED BY <1>2, <2>2 DEF Lands, Stage
<1> QED BY <1>6, <1>7, <1>8, <1>9, <1>10

\* Each step of an operation.
LEMMA OpNext ==
    ASSUME LifecycleInv, process = "up", ~Crash, NEW u \in Callers, OpStep(u)
    PROVE  /\ SocketsOwned' /\ OneOperation' /\ ContextsCounted' /\ ReadersEnd'
           /\ \A v \in Callers : Stage(op[v])'
           /\ AtRest' => (Disconnected \/ Established)'
<1>1. /\ op[u] # "idle" /\ process' = "up"
      /\ \E step \in Steps : Goto(u, step) /\ Lands(step)'
    <2> USE DEF Steps
    <2>1. CASE Dial(u)
        BY <2>1, DialLands DEF Dial
    <2>2. CASE DialFails(u)
        BY <2>2, ConnKeptLands DEF DialFails
    <2>3. CASE PingServer(u)
        BY <2>3, ConnKeptLands DEF PingServer, Begin, core
    <2>4. CASE Handshaken(u)
        BY <2>4, HandshakenLands DEF Handshaken
    <2>5. CASE HandshakeFails(u)
        BY <2>5, ConnKeptLands DEF HandshakeFails, Begin, core
    <2>6. CASE JoinRoom(u)
        BY <2>6, ConnKeptLands DEF JoinRoom
    <2>7. CASE LeaveRoom(u)
        BY <2>7, ConnKeptLands DEF LeaveRoom
    <2>8. CASE Cancel(u)
        BY <2>8, CloseLands DEF Cancel
    <2>9. CASE CloseConn(u)
        BY <2>9, CloseLands DEF CloseConn
    <2>10. CASE ForgetConn(u)
        BY <2>10, CloseLands DEF ForgetConn
    <2>11. CASE Renew(u)
        BY <2>11, RenewLands DEF Renew, Begin
    <2> QED
        BY <2>1, <2>2, <2>3, <2>4, <2>5, <2>6, <2>7, <2>8, <2>9, <2>10, <2>11 DEF OpStep
<1> QED BY <1>1, LandsNext

-----------------------------------------------------------------------------
(* What goes on beside the operations                                        *)

\* A loop ends by a cancelled context only: as long as that of the client is
\* not, a loop that is alive stays so.
LEMMA LoopStaysAlive ==
    ASSUME TypeOK, ctx \notin cancelled, UNCHANGED cancelled,
           NEW m \in DOMAIN loop, Alive(m),
           \/ UNCHANGED loop
           \/ ~Crash /\ \E l \in DOMAIN loop : LoopStep(l) \/ Tick(l)
    PROVE  Alive(m)'
<1>1. CASE UNCHANGED loop
    BY <1>1 DEF Alive
<1>2. ASSUME NEW l \in DOMAIN loop, LoopStep(l) \/ Tick(l), ~Crash  PROVE Alive(m)'
    <2>1. CASE LoopEnds(l)
        <3>1. ~Alive(l)
            BY <2>1 DEF LoopEnds, Alive
        <3>2. loop'[m] = loop[m]
            BY <2>1, <3>1 DEF LoopEnds, Move, TypeOK
        <3> QED BY <3>2 DEF Alive
    <2>2. CASE EnterSelect(l)
        BY <2>2 DEF EnterSelect, Move, TypeOK, Alive
    <2>3. CASE \E at \in {"top", "body"} : \E on : Move(l, at, on)
        BY <2>3 DEF Move, TypeOK, Alive
    <2> QED
        BY <1>2, <2>1, <2>2, <2>3 DEF LoopStep, TakePong, CountPong, Heartbeat, Tick
<1> QED BY <1>1, <1>2

\* Neither the read loops nor the background loops touch the connection.
LEMMA BesideNext ==
    ASSUME LifecycleInv, process = "up", ~Crash,
           \/ \E c \in Conns : ReadPacket(c) \/ ReadLoopEnds(c) \/ DispatchPong(c)
           \/ \E l \in DOMAIN loop : LoopStep(l) \/ Tick(l)
    PROVE  /\ SocketsOwned' /\ OneOperation' /\ ContextsCounted' /\ ReadersEnd'
           /\ \A v \in Callers : Stage(op[v])'
           /\ AtRest' => (Disconnected \/ Established)'
<1>1. UNCHANGED <<core, op, connected, process>>
    BY DEF ReadPacket, ReadLoopEnds, DispatchPong, LoopStep, EnterSelect, LoopEnds, TakePong,
           CountPong, Heartbeat, Tick, ui, ops
<1>2. \A d \in Conns : reader'[d] = reader[d] \/ (reader[d] \in cancelled /\ reader'[d] = 0)
    <2>1. ASSUME NEW c \in Conns, ReadLoopEnds(c)
          PROVE  \A d \in Conns : reader'[d] = reader[d] \/ (reader[d] \in cancelled /\ reader'[d] = 0)
        BY <2>1 DEF ReadLoopEnds, LifecycleInv, TypeOK
    <2>2. CASE UNCHANGED reader
        BY <2>2
    <2> QED
        BY <2>1, <2>2 DEF ReadPacket, DispatchPong, LoopStep, EnterSelect, LoopEnds, TakePong,
                          CountPong, Heartbeat, Tick, loops
<1>3. TypeOK
    BY DEF LifecycleInv
<1>4. ASSUME ctx \notin cancelled, NEW m \in DOMAIN loop, Alive(m)  PROVE Alive(m)'
    <2>1. UNCHANGED loop \/ \E l \in DOMAIN loop : LoopStep(l) \/ Tick(l)
        BY DEF ReadPacket, ReadLoopEnds, DispatchPong, loops
    <2> QED BY <1>1, <1>3, <1>4, <2>1, LoopStaysAlive DEF core
<1>5. ASSUME conn \in Conns  PROVE <<"pong", conn>> \in DOMAIN loop /\ <<"beat", conn>> \in DOMAIN loop
    BY <1>3, <1>5 DEF TypeOK, Kinds
<1>6. Disconnected => Disconnected'
    BY <1>1 DEF Disconnected, core
<1>7. Dialled => Dialled'
    <2> SUFFICES ASSUME Dialled  PROVE Dialled'
        OBVIOUS
    <2>1. conn \in Conns /\ reader[conn] \notin cancelled
        BY <1>3 DEF Dialled, TypeOK
    <2> QED BY <1>1, <1>2, <1>4, <1>5, <2>1 DEF Dialled, core
<1>8. Established => Established'
    <2> SUFFICES ASSUME Established  PROVE Established'
        OBVIOUS
    <2>1. conn \in Conns /\ Dialled'
        BY <1>3, <1>7 DEF Established, Dialled, TypeOK
    <2>2. Alive(<<"beat", conn>>)'
        <3>1. <<"beat", conn>> \in DOMAIN loop /\ Alive(<<"beat", conn>>) /\ ctx \notin cancelled
            BY <1>5, <2>1 DEF Established, Dialled
        <3>2. \A m \in DOMAIN loop : Alive(m) => Alive(m)'
            BY <1>4, <3>1
        <3> QED BY <1>1, <3>1, <3>2 DEF core
    <2> QED BY <1>1, <2>1, <2>2 DEF Established
<1>9. ASSUME NEW v \in Callers  PROVE Stage(op[v])'
    <2>1. Stage(op[v])
        BY DEF LifecycleInv
    <2> QED BY <1>1, <1>6, <1>7, <1>8, <2>1 DEF Stage, core
<1>10. SocketsOwned' /\ OneOperation' /\ ContextsCounted' /\ ReadersEnd'
    BY <1>1, <1>2 DEF LifecycleInv, SocketsOwned, OneOperation, ContextsCounted, Teardown,
                      ReadersEnd, core
<1>11. AtRest' => (Disconnected \/ Established)'
    BY <1>1, <1>6, <1>8 DEF LifecycleInv, AtRest
<1> QED BY <1>9, <1>10, <1>11

-----------------------------------------------------------------------------
(* The invariant                                                             *)

LEMMA LifecycleInit == Init => LifecycleInv
<1> SUFFICES ASSUME Init  PROVE LifecycleInv
    OBVIOUS
<1>1. TypeOK
    BY TypeInit
<1>2. SocketsOwned /\ OneOperation /\ ReadersEnd /\ PongsCarried
    BY DEF Init, SocketsOwned, OneOperation, ReadersEnd, PongsCarried, Kinds, Idle
<1>3. ContextsCounted
    BY DEF Init, ContextsCounted, Teardown, NoConn
<1>4. Disconnected
    BY DEF Init, Disconnected
<1>5. \A u \in Callers : Stage(op[u])
    BY DEF Init, Stage
<1> QED BY <1>1, <1>2, <1>3, <1>4, <1>5 DEF LifecycleInv

\* A front end that takes its operations one at a time: every step keeps it.
LEMMA LifecycleNext ==
    ASSUME ~Overlap
    PROVE  LifecycleInv /\ [Next]_vars => LifecycleInv'
<1> SUFFICES ASSUME LifecycleInv, [Next]_vars  PROVE LifecycleInv'
    OBVIOUS
<1>1. CASE Crash \/ Close
    BY <1>1, VanishClears DEF Crash, Close
<1>2. CASE Next /\ ~Crash /\ ~Close
    <2> USE <1>2
    <2>1. process = "up" /\ PongsCarried'
        BY CarriedNext DEF Next
    <2>2. CASE doJoin \/ autoConnect \/ doDisconnect
        BY <2>1, <2>2, TypeOperation, BeginNext DEF LifecycleInv
    <2>3. ASSUME NEW u \in Callers, OpStep(u)  PROVE LifecycleInv'
        <3>1. TypeOK'
            BY <2>3, TypeOperation
        <3> QED BY <2>1, <2>3, <3>1, OpNext DEF LifecycleInv
    <2>4. ASSUME NEW c \in Conns, ReadPacket(c) \/ ReadLoopEnds(c) \/ DispatchPong(c)
          PROVE  LifecycleInv'
        <3>1. TypeOK'
            BY <2>4, TypeReading DEF LifecycleInv
        <3> QED BY <2>1, <2>4, <3>1, BesideNext DEF LifecycleInv
    <2>5. ASSUME NEW l \in DOMAIN loop, LoopStep(l) \/ Tick(l)  PROVE LifecycleInv'
        <3>1. TypeOK'
            BY <2>5, TypeLoop DEF LifecycleInv
        <3> QED BY <2>1, <2>5, <3>1, BesideNext DEF LifecycleInv
    <2> QED BY <2>2, <2>3, <2>4, <2>5 DEF Next
<1>3. CASE UNCHANGED vars
    <2> USE <1>3 DEF vars, core, loops, net, ui, ops
    <2>1. TypeOK' /\ SocketsOwned' /\ OneOperation' /\ PongsCarried'
        BY DEF LifecycleInv, TypeOK, SocketsOwned, OneOperation, PongsCarried
    <2>2. ContextsCounted' /\ ReadersEnd'
        BY DEF LifecycleInv, ContextsCounted, Teardown, ReadersEnd
    <2>3. /\ AtRest' <=> AtRest
          /\ Disconnected' <=> Disconnected
          /\ Dialled' <=> Dialled
          /\ Established' <=> Established
        BY DEF AtRest, Disconnected, Dialled, Established, Alive
    <2>4. process' = "up" => \A u \in Callers : Stage(op[u])'
        BY <2>3 DEF LifecycleInv, Stage
    <2> QED BY <2>1, <2>2, <2>3, <2>4 DEF LifecycleInv
<1> QED BY <1>1, <1>2, <1>3

\* In every state a front end that awaits its operations can bring the client
\* to, each step of an operation finds what the steps before it left, and a
\* client at rest has no connection or a complete one (client.go:220, 282).
THEOREM LifecycleInvCorrect ==
    ASSUME ~Overlap
    PROVE  Spec => []LifecycleInv
<1>1. LifecycleInv /\ [Next]_vars => LifecycleInv'
    BY LifecycleNext
<1> QED BY <1>1, LifecycleInit, PTL DEF Spec

\* Every variable of the client keeps its type.
THEOREM LifecycleTypeCorrect ==
    ASSUME ~Overlap
    PROVE  Spec => []TypeOK
<1>1. LifecycleInv => TypeOK
    BY DEF LifecycleInv
<1> QED BY <1>1, LifecycleInvCorrect, PTL

\* No socket is lost: an open one is that of c.conn (client.go:238).
THEOREM SocketsOwnedCorrect ==
    ASSUME ~Overlap
    PROVE  Spec => []SocketsOwned
<1>1. LifecycleInv => SocketsOwned
    BY DEF LifecycleInv
<1> QED BY <1>1, LifecycleInvCorrect, PTL

\* A client at rest with a connection has all its machinery running, one
\* without shows it and can connect again, and no former read loop goes on
\* (client.go:220, 282, netconn/udp.go:102).
THEOREM ServedCorrect ==
    ASSUME ~Overlap
    PROVE  Spec => []Served
<1>1. LifecycleInv => Served
    <2> SUFFICES ASSUME LifecycleInv, AtRest  PROVE Served
        BY DEF Served
    <2>1. TypeOK /\ ReadersEnd
        BY DEF LifecycleInv
    <2>2. Disconnected \/ Established
        BY DEF LifecycleInv
    <2>3. \A c \in Conns \ {conn} : reader[c] \in {0} \cup cancelled
        BY <2>1 DEF ReadersEnd
    <2>4. CASE Disconnected
        BY <2>3, <2>4 DEF Served, Disconnected
    <2>5. CASE Established
        <3>1. \A k \in Kinds : Alive(<<k, conn>>)
            BY <2>5 DEF Established, Dialled, Kinds
        <3> QED BY <2>3, <2>5, <3>1 DEF Served, Established, Dialled
    <2> QED BY <2>2, <2>4, <2>5
<1> QED BY <1>1, LifecycleInvCorrect, PTL

=============================================================================
