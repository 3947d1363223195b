------------------------- MODULE PeerChannelsProofs -------------------------
(* Theorems about PeerChannels, for every number of peers, endpoints and     *)
(* goroutines.                                                               *)
EXTENDS PeerChannels, TLAPS

TypeInv == TypeOK /\ LocalsOK

-----------------------------------------------------------------------------
(* Type correctness *)

\* A task belongs to a handler and a peer.
LEMMA TaskPair ==
    ASSUME NEW h \in Handlers, NEW p \in Peers
    PROVE  <<h, p>> \in Tasks
    BY DEF Tasks

\* What the records of the server and the channels made from them contain.
LEMMA InfoFields ==
    ASSUME NEW i \in Infos
    PROVE  /\ i # None /\ i.id \in Peers /\ i.addrs \subseteq Addrs
           /\ Relay(i.vip) \in ChanRec /\ Relay(i.vip).type = "relay"
           /\ \A a \in Addrs : P2P(a, i.vip) \in ChanRec /\ P2P(a, i.vip).type = "p2p"
    BY InfosAssumption, NoneAssumption DEF Relay, P2P, ChanRec

LEMMA TypeInit == Init => TypeInv
<1> SUFFICES ASSUME Init  PROVE TypeInv
    OBVIOUS
<1>1. Idle \in HandlerRec /\ Idle.pc = "idle"
    BY DEF Idle, HandlerRec
<1>2. TaskIdle \in TaskRec /\ TaskIdle.pc = "idle"
    BY DEF TaskIdle, TaskRec
<1>3. TypeOK
    BY <1>1, <1>2 DEF Init, TypeOK, AttStates, AttEnded
<1>4. LocalsOK
    BY <1>1, <1>2 DEF Init, LocalsOK
<1> QED BY <1>3, <1>4 DEF TypeInv

\* A new channel keeps the types.
LEMMA InstallTyped ==
    ASSUME TypeOK, NEW p \in Peers, NEW rec \in ChanRec, Install(p, rec)
    PROVE  /\ channels' \in [Peers -> Chans \cup {None}]
           /\ chan' \in [Chans -> ChanRec \cup {None}]
    BY DEF TypeOK, Install

\* New punches are busy with the record they punch for; the others are as before.
LEMMA SpawnTyped ==
    ASSUME TypeInv, NEW h \in Handlers, NEW S \in SUBSET Infos, Spawn(h, S)
    PROVE  /\ tk' \in [Tasks -> TaskRec]
           /\ att' \in [Tasks -> [Addrs -> AttStates]]
           /\ \A t \in Tasks : tk'[t].pc # "idle" => tk'[t].info \in Infos
           /\ \A t \in Tasks : tk'[t].pc = "won" => tk'[t].win \in Addrs
<1> DEFINE new(t, i) == i.addrs # {} /\ t = <<h, i.id>>
           rec(t) == [pc |-> "start", info |-> CHOOSE i \in S : new(t, i), win |-> None]
<1>1. tk' = [t \in Tasks |-> IF \E i \in S : new(t, i) THEN rec(t) ELSE tk[t]]
    BY DEF Spawn
<1>2. ASSUME NEW t \in Tasks, \E i \in S : new(t, i)
      PROVE  (CHOOSE i \in S : new(t, i)) \in Infos
    BY <1>2
<1>3. ASSUME NEW t \in Tasks
      PROVE  /\ tk'[t] \in TaskRec
             /\ tk'[t].pc # "idle" => tk'[t].info \in Infos
             /\ tk'[t].pc = "won" => tk'[t].win \in Addrs
    <2>1. CASE \E i \in S : new(t, i)
        <3>1. tk'[t] = rec(t) /\ rec(t).info \in Infos /\ rec(t).pc = "start"
            BY <1>1, <1>2, <2>1
        <3>2. rec(t) \in TaskRec
            BY <3>1 DEF TaskRec
        <3> HIDE DEF rec
        <3> QED BY <3>1, <3>2
    <2>2. CASE ~ \E i \in S : new(t, i)
        BY <1>1, <2>2 DEF TypeInv, TypeOK, LocalsOK
    <2> QED BY <2>1, <2>2
<1>4. att' \in [Tasks -> [Addrs -> AttStates]]
    BY DEF Spawn, TypeInv, TypeOK, AttStates
<1> HIDE DEF new, rec
<1>5. tk' \in [Tasks -> TaskRec]
    BY <1>1, <1>3
<1> QED BY <1>3, <1>4, <1>5

\* A handler that returns, starts or goes on keeps the types of the handlers.
LEMMA HandlerTyped ==
    ASSUME TypeInv, NEW h \in Handlers, NEW r \in HandlerRec, hs' = [hs EXCEPT ![h] = r],
           r.pc \in {"address", "leave", "passive", "send", "relay"} => r.info \in Infos,
           r.pc = "passive" => r.addr \in Addrs
    PROVE  /\ hs' \in [Handlers -> HandlerRec]
           /\ \A g \in Handlers :
                 hs'[g].pc \in {"address", "leave", "passive", "send", "relay"}
                     => hs'[g].info \in Infos
           /\ \A g \in Handlers : hs'[g].pc = "passive" => hs'[g].addr \in Addrs
<1>1. hs' \in [Handlers -> HandlerRec]
    BY DEF TypeInv, TypeOK
<1>2. \A g \in Handlers : hs'[g] = IF g = h THEN r ELSE hs[g]
    BY DEF TypeInv, TypeOK
<1> QED BY <1>1, <1>2 DEF TypeInv, LocalsOK

LEMMA FinishTyped ==
    ASSUME TypeInv, NEW h \in Handlers, Finish(h)
    PROVE  /\ hs' \in [Handlers -> HandlerRec]
           /\ \A g \in Handlers :
                 hs'[g].pc \in {"address", "leave", "passive", "send", "relay"}
                     => hs'[g].info \in Infos
           /\ \A g \in Handlers : hs'[g].pc = "passive" => hs'[g].addr \in Addrs
<1>1. Idle \in HandlerRec /\ Idle.pc = "idle"
    BY DEF Idle, HandlerRec
<1>2. hs' = [hs EXCEPT ![h] = Idle]
    BY DEF Finish
<1> HIDE DEF Idle
<1> QED BY <1>1, <1>2, HandlerTyped

\* A task that moves to a record of its type keeps the types of the tasks.
LEMMA TaskTyped ==
    ASSUME TypeInv, NEW t \in Tasks, NEW r \in TaskRec, tk' = [tk EXCEPT ![t] = r],
           r.pc # "idle" => r.info \in Infos, r.pc = "won" => r.win \in Addrs
    PROVE  /\ tk' \in [Tasks -> TaskRec]
           /\ \A s \in Tasks : tk'[s].pc # "idle" => tk'[s].info \in Infos
           /\ \A s \in Tasks : tk'[s].pc = "won" => tk'[s].win \in Addrs
<1>1. tk' \in [Tasks -> TaskRec]
    BY DEF TypeInv, TypeOK
<1>2. \A s \in Tasks : tk'[s] = IF s = t THEN r ELSE tk[s]
    BY DEF TypeInv, TypeOK
<1> QED BY <1>1, <1>2 DEF TypeInv, LocalsOK

\* The end of the context makes punches that wait return, and does nothing else.
LEMMA CancelTasks ==
    ASSUME TypeInv, CancelPunches
    PROVE  /\ tk' \in [Tasks -> TaskRec]
           /\ \A t \in Tasks : /\ tk'[t].info = tk[t].info /\ tk'[t].win = tk[t].win
                               /\ tk'[t].pc = "idle" <=> tk[t].pc = "idle"
                               /\ tk'[t].pc = "won" <=> tk[t].pc = "won"
<1>1. PICK S : tk' = [t \in Tasks |-> IF tk[t].pc = "select" /\ t \notin S
                                     THEN [tk[t] EXCEPT !.pc = "wrap"] ELSE tk[t]]
    BY DEF CancelPunches
<1>2. \A t \in Tasks : tk[t] \in TaskRec
    BY DEF TypeInv, TypeOK
<1>3. ASSUME NEW t \in Tasks
      PROVE  /\ tk'[t] \in TaskRec /\ tk'[t].info = tk[t].info /\ tk'[t].win = tk[t].win
             /\ tk'[t].pc = "idle" <=> tk[t].pc = "idle"
             /\ tk'[t].pc = "won" <=> tk[t].pc = "won"
    BY <1>1, <1>2 DEF TaskRec
<1> QED BY <1>1, <1>3

\* The user's calls keep the types.
LEMMA TypeUser == TypeInv /\ User => TypeInv'
<1> SUFFICES ASSUME TypeInv, User  PROVE TypeInv'
    OBVIOUS
<1> USE DEF TypeInv, TypeOK, LocalsOK, table, punches
<1>1. CASE JoinRoom
    BY <1>1 DEF JoinRoom
<1>2. CASE LeavePunches
    BY <1>2 DEF LeavePunches, AttStates
<1>3. CASE LeaveChannels
    BY <1>3 DEF LeaveChannels
<1>4. CASE LeaveReset
    BY <1>4 DEF LeaveReset, Reset
<1>5. CASE Rejoin \/ RenewContext
    BY <1>5 DEF Rejoin, RenewContext
<1>6. CASE CancelPunches
    <2>1. UNCHANGED <<table, channels, chan, hs, pending, att>> /\ room' = "cancelled"
        BY <1>6 DEF CancelPunches
    <2> QED BY <1>6, <2>1, CancelTasks
<1> QED BY <1>1, <1>2, <1>3, <1>4, <1>5, <1>6 DEF User

\* The arrival of a datagram or of a packet to send keeps the types.
LEMMA TypeArrival == ASSUME TypeInv, NEW h \in Handlers, Arrival(h)  PROVE TypeInv'
<1>1. CASE \E S \in SUBSET Infos : RoomStatus(h, S)
    <2>1. PICK S \in SUBSET Infos : RoomStatus(h, S)
        BY <1>1
    <2> DEFINE r == [Idle EXCEPT !.pc = "status", !.todo = S, !.all = S, !.me = TRUE]
    <2>2. r \in HandlerRec /\ r.pc = "status"
        BY DEF Idle, HandlerRec
    <2>3. hs' = [hs EXCEPT ![h] = r]
        BY <2>1 DEF RoomStatus
    <2> HIDE DEF r
    <2> QED BY <2>1, <2>2, <2>3, HandlerTyped
            DEF RoomStatus, Reset, TypeInv, TypeOK, LocalsOK, punches
<1>2. CASE \E i \in Infos : PeerAddress(h, i)
    <2>1. PICK i \in Infos : PeerAddress(h, i)
        BY <1>2
    <2> DEFINE r == [Idle EXCEPT !.pc = "address", !.info = i]
    <2>2. r \in HandlerRec /\ r.pc = "address" /\ r.info = i
        BY DEF Idle, HandlerRec
    <2>3. hs' = [hs EXCEPT ![h] = r]
        BY <2>1 DEF PeerAddress
    <2> HIDE DEF r
    <2> QED BY <2>1, <2>2, <2>3, HandlerTyped, InfoFields
            DEF PeerAddress, TypeInv, TypeOK, LocalsOK, punches
<1>3. CASE \E i \in Infos : PeerLeave(h, i)
    <2>1. PICK i \in Infos : PeerLeave(h, i)
        BY <1>3
    <2> DEFINE r == [Idle EXCEPT !.pc = "leave", !.info = i]
    <2>2. r \in HandlerRec /\ r.pc = "leave" /\ r.info = i
        BY DEF Idle, HandlerRec
    <2>3. hs' = [hs EXCEPT ![h] = r]
        BY <2>1 DEF PeerLeave
    <2> HIDE DEF r
    <2> QED BY <2>1, <2>2, <2>3, HandlerTyped, InfoFields
            DEF PeerLeave, TypeInv, TypeOK, LocalsOK, punches
<1>4. CASE \E i \in Infos : Send(h, i.vip)
    <2>1. PICK p \in Peers : /\ peers[p] # None
                             /\ hs' = [hs EXCEPT ![h] = [Idle EXCEPT !.pc = "send", !.info = peers[p]]]
        BY <1>4 DEF Send
    <2>2. peers[p] \in Infos
        BY <2>1 DEF TypeInv, TypeOK
    <2> DEFINE r == [Idle EXCEPT !.pc = "send", !.info = peers[p]]
    <2>3. r \in HandlerRec /\ r.pc = "send" /\ r.info = peers[p]
        BY <2>2 DEF Idle, HandlerRec
    <2> HIDE DEF r
    <2>4. hs' = [hs EXCEPT ![h] = r]
        BY <2>1 DEF r
    <2> QED BY <1>4, <2>2, <2>3, <2>4, HandlerTyped
            DEF Send, TypeInv, TypeOK, LocalsOK, punches, table
<1>5. CASE \E a \in Addrs : Punch(h, a)
    <2>1. PICK a \in Addrs : Punch(h, a)
        BY <1>5
    <2>2. PICK p \in Peers :
             /\ peers[p] # None
             /\ hs' = [hs EXCEPT ![h] = [Idle EXCEPT !.pc = "passive", !.info = peers[p], !.addr = a]]
        BY <2>1 DEF Punch
    <2>3. peers[p] \in Infos
        BY <2>2 DEF TypeInv, TypeOK
    <2> DEFINE r == [Idle EXCEPT !.pc = "passive", !.info = peers[p], !.addr = a]
    <2>4. r \in HandlerRec /\ r.pc = "passive" /\ r.info = peers[p] /\ r.addr = a
        BY <2>3 DEF Idle, HandlerRec
    <2> HIDE DEF r
    <2>5. hs' = [hs EXCEPT ![h] = r]
        BY <2>2 DEF r
    <2> QED BY <2>1, <2>3, <2>4, <2>5, HandlerTyped
            DEF Punch, TypeInv, TypeOK, LocalsOK, punches, table
<1> QED BY <1>1, <1>2, <1>3, <1>4, <1>5 DEF Arrival

\* The steps of a handler keep the types.
LEMMA TypeHandle == ASSUME TypeInv, NEW h \in Handlers, Handle(h)  PROVE TypeInv'
<1>1. CASE StatusSelf(h)
    <2> DEFINE r == [hs[h] EXCEPT !.me = FALSE]
    <2>1. r \in HandlerRec /\ r.pc = "status"
        BY <1>1 DEF StatusSelf, At, TypeInv, TypeOK, HandlerRec
    <2>2. hs' = [hs EXCEPT ![h] = r]
        BY <1>1 DEF StatusSelf
    <2> HIDE DEF r
    <2> QED BY <1>1, <2>1, <2>2, HandlerTyped
            DEF StatusSelf, TypeInv, TypeOK, LocalsOK, punches
<1>2. CASE StatusPeer(h)
    <2>1. PICK i \in hs[h].todo : /\ peers' = [peers EXCEPT ![i.id] = i]
                                  /\ hs' = [hs EXCEPT ![h].todo = @ \ {i}]
        BY <1>2 DEF StatusPeer
    <2>2. hs[h] \in HandlerRec /\ hs[h].todo \in SUBSET Infos /\ hs[h].pc = "status"
        BY <1>2 DEF StatusPeer, At, TypeInv, TypeOK, HandlerRec
    <2> DEFINE r == [hs[h] EXCEPT !.todo = @ \ {i}]
    <2>3. r \in HandlerRec /\ r.pc = "status"
        <3> DEFINE rest == hs[h].todo \ {i}
        <3>1. r = [hs[h] EXCEPT !.todo = rest] /\ rest \in SUBSET Infos
            BY <2>2
        <3> HIDE DEF rest, r
        <3> QED BY <2>2, <3>1 DEF HandlerRec
    <2>4. hs' = [hs EXCEPT ![h] = r]
        BY <2>1
    <2> HIDE DEF r
    <2> QED BY <1>2, <2>1, <2>2, <2>3, <2>4, HandlerTyped
            DEF StatusPeer, TypeInv, TypeOK, LocalsOK, punches
<1>3. CASE StatusSpawn(h)
    <2>1. hs[h].all \in SUBSET Infos
        BY DEF TypeInv, TypeOK, HandlerRec
    <2> QED BY <1>3, <2>1, SpawnTyped, FinishTyped
            DEF StatusSpawn, TypeInv, TypeOK, LocalsOK, table
<1>4. CASE AddressSpawn(h)
    <2> DEFINE S == {hs[h].info}
    <2>1. S \in SUBSET Infos
        BY <1>4 DEF AddressSpawn, At, TypeInv, LocalsOK
    <2>2. Spawn(h, S) /\ Finish(h) /\ UNCHANGED <<room, table, channels, chan, pending>>
        BY <1>4 DEF AddressSpawn
    <2> HIDE DEF S
    <2> QED BY <2>1, <2>2, SpawnTyped, FinishTyped DEF TypeInv, TypeOK, LocalsOK, table
<1>5. CASE LeaveDrop(h)
    BY <1>5, FinishTyped DEF LeaveDrop, TypeInv, TypeOK, LocalsOK, table, punches
<1>6. CASE PassiveInstall(h)
    <2> DEFINE i == hs[h].info
    <2>1. i \in Infos /\ hs[h].addr \in Addrs
        BY <1>6 DEF PassiveInstall, At, TypeInv, LocalsOK
    <2>2. /\ channels' \in [Peers -> Chans \cup {None}]
          /\ chan' \in [Chans -> ChanRec \cup {None}]
        BY <1>6, <2>1, InfoFields, InstallTyped DEF PassiveInstall, TypeInv, TypeOK
    <2> QED BY <1>6, <2>2, FinishTyped
            DEF PassiveInstall, TypeInv, TypeOK, LocalsOK, table, punches
<1>7. CASE SendLookup(h)
    <2> DEFINE r == IF channels[hs[h].info.id] # None THEN Idle ELSE [hs[h] EXCEPT !.pc = "relay"]
    <2>1. hs[h] \in HandlerRec /\ hs[h].info \in Infos
        BY <1>7 DEF SendLookup, At, TypeInv, TypeOK, LocalsOK
    <2>2. r \in HandlerRec /\ (r.pc = "relay" => r.info = hs[h].info) /\ r.pc \in {"idle", "relay"}
        <3>1. Idle \in HandlerRec /\ Idle.pc = "idle"
            BY DEF Idle, HandlerRec
        <3>2. LET q == [hs[h] EXCEPT !.pc = "relay"]
              IN  q \in HandlerRec /\ q.pc = "relay" /\ q.info = hs[h].info
            BY <2>1 DEF HandlerRec
        <3> QED BY <3>1, <3>2
    <2>3. hs' = [hs EXCEPT ![h] = r]
        BY <1>7 DEF SendLookup
    <2> HIDE DEF r
    <2> QED BY <1>7, <2>1, <2>2, <2>3, HandlerTyped
            DEF SendLookup, TypeInv, TypeOK, LocalsOK, table, punches
<1>8. CASE SendRelay(h)
    <2> DEFINE i == hs[h].info
    <2>1. i \in Infos
        BY <1>8 DEF SendRelay, At, TypeInv, LocalsOK
    <2>2. /\ channels' \in [Peers -> Chans \cup {None}]
          /\ chan' \in [Chans -> ChanRec \cup {None}]
        BY <1>8, <2>1, InfoFields, InstallTyped DEF SendRelay, TypeInv, TypeOK
    <2> QED BY <1>8, <2>2, FinishTyped
            DEF SendRelay, TypeInv, TypeOK, LocalsOK, table, punches
<1> QED BY <1>1, <1>2, <1>3, <1>4, <1>5, <1>6, <1>7, <1>8 DEF Handle

\* An attempt that moves on keeps the types of the attempts.
LEMMA AttTyped ==
    ASSUME TypeInv, NEW t \in Tasks, NEW a \in Addrs, NEW v \in AttStates,
           att' = [att EXCEPT ![t][a] = v]
    PROVE  att' \in [Tasks -> [Addrs -> AttStates]]
    BY DEF TypeInv, TypeOK

\* So do a reply and the steps of an attempt.
LEMMA TypeAttempt ==
    ASSUME TypeInv, NEW a \in Addrs,
           Reply(a) \/ \E t \in Tasks : Attempt(t, a)
    PROVE  TypeInv'
<1>1. CASE Reply(a)
    BY <1>1 DEF Reply, TypeInv, TypeOK, LocalsOK, AttStates, table
<1>2. ASSUME NEW t \in Tasks, Attempt(t, a)  PROVE TypeInv'
    <2>1. CASE Register(t, a)
        <3>1. \E v \in AttStates : att' = [att EXCEPT ![t][a] = v]
            BY <2>1 DEF Register, AttStates, AttEnded
        <3>3. att' \in [Tasks -> [Addrs -> AttStates]]
            BY <3>1, AttTyped
        <3>2. pending' \in [Addrs -> Tasks \cup {None}]
            BY <2>1 DEF Register, TypeInv, TypeOK
        <3> QED BY <2>1, <3>2, <3>3 DEF Register, TypeInv, TypeOK, LocalsOK, table
    <2>2. CASE Succeed(t, a)
        BY <2>2 DEF Succeed, TypeInv, TypeOK, LocalsOK, AttStates, table
    <2>3. CASE GiveUp(t, a)
        BY <2>3 DEF GiveUp, TypeInv, TypeOK, LocalsOK, AttStates, table
    <2>4. CASE Cleanup(t, a)
        <3> DEFINE r == [tk[t] EXCEPT !.win = a, !.pc = IF @ = "select" THEN "won" ELSE @]
        <3>1. tk[t] \in TaskRec
            BY DEF TypeInv, TypeOK
        <3>2. /\ r \in TaskRec /\ r.info = tk[t].info /\ r.win = a
              /\ r.pc = "idle" <=> tk[t].pc = "idle"
            BY <3>1 DEF TaskRec
        <3>3. tk' = [tk EXCEPT ![t] = r] \/ tk' = tk
            BY <2>4 DEF Cleanup
        <3>4. r.pc # "idle" => r.info \in Infos
            BY <3>2 DEF TypeInv, LocalsOK
        <3> HIDE DEF r
        <3>5. /\ tk' \in [Tasks -> TaskRec]
              /\ \A s \in Tasks : tk'[s].pc # "idle" => tk'[s].info \in Infos
              /\ \A s \in Tasks : tk'[s].pc = "won" => tk'[s].win \in Addrs
            <4>1. CASE tk' = [tk EXCEPT ![t] = r]
                BY <3>2, <3>4, <4>1, TaskTyped
            <4>2. CASE tk' = tk
                BY <4>2 DEF TypeInv, TypeOK, LocalsOK
            <4> QED BY <3>3, <4>1, <4>2
        <3>6. att' \in [Tasks -> [Addrs -> AttStates]]
            BY <2>4 DEF Cleanup, TypeInv, TypeOK, AttStates, AttEnded
        <3> QED BY <2>4, <3>5, <3>6 DEF Cleanup, TypeInv, TypeOK, LocalsOK, table
    <2> QED BY <1>2, <2>1, <2>2, <2>3, <2>4 DEF Attempt
<1> QED BY <1>1, <1>2

\* And the steps of punchPeer.
LEMMA TypeTask == ASSUME TypeInv, NEW t \in Tasks, Task(t)  PROVE TypeInv'
<1> DEFINE Typed == /\ tk' \in [Tasks -> TaskRec]
                    /\ \A s \in Tasks : tk'[s].pc # "idle" => tk'[s].info \in Infos
                    /\ \A s \in Tasks : tk'[s].pc = "won" => tk'[s].win \in Addrs
<1>1. tk[t] \in TaskRec /\ (tk[t].pc # "idle" => tk[t].info \in Infos)
    BY DEF TypeInv, TypeOK, LocalsOK
<1>2. ASSUME NEW pc \in {"select", "won", "lost", "wrap"}, tk[t].pc # "idle",
             pc = "won" => tk[t].win \in Addrs, tk' = [tk EXCEPT ![t].pc = pc]
      PROVE  Typed
    <2> DEFINE r == [tk[t] EXCEPT !.pc = pc]
    <2>1. r \in TaskRec /\ r.pc = pc /\ r.info = tk[t].info /\ r.win = tk[t].win
        BY <1>1 DEF TaskRec
    <2>2. tk' = [tk EXCEPT ![t] = r]
        BY <1>2
    <2> HIDE DEF r
    <2> QED BY <1>1, <1>2, <2>1, <2>2, TaskTyped
<1>3. CASE Select(t)
    <2>1. tk[t].win # None => tk[t].win \in Addrs
        BY <1>1 DEF TaskRec
    <2>2. Typed
        BY <1>2, <1>3, <2>1 DEF Select
    <2> QED BY <1>3, <2>2 DEF Select, TaskStep, TypeInv, TypeOK, LocalsOK, table
<1>4. CASE AllFailed(t)
    <2>1. Typed
        BY <1>2, <1>4 DEF AllFailed
    <2> QED BY <1>4, <2>1 DEF AllFailed, TaskStep, TypeInv, TypeOK, LocalsOK, table
<1>5. CASE Connect(t)
    <2>1. Typed
        BY <1>2, <1>5 DEF Connect
    <2>2. tk[t].info \in Infos /\ tk[t].win \in Addrs
        BY <1>5 DEF Connect, TypeInv, LocalsOK
    <2>3. /\ channels' \in [Peers -> Chans \cup {None}]
          /\ chan' \in [Chans -> ChanRec \cup {None}]
        BY <1>5, <2>2, InfoFields, InstallTyped DEF Connect, TypeInv
    <2> QED BY <1>5, <2>1, <2>3 DEF Connect, TaskStep, TypeInv, TypeOK, LocalsOK, table
<1>6. CASE Fallback(t)
    <2>1. Typed
        BY <1>2, <1>6 DEF Fallback
    <2>2. tk[t].info \in Infos
        BY <1>6 DEF Fallback, TypeInv, LocalsOK
    <2>3. /\ channels' \in [Peers -> Chans \cup {None}]
          /\ chan' \in [Chans -> ChanRec \cup {None}]
        BY <1>6, <2>2, InfoFields, InstallTyped DEF Fallback, TypeInv, TypeOK
    <2> QED BY <1>6, <2>1, <2>3 DEF Fallback, TaskStep, TypeInv, TypeOK, LocalsOK, table
<1>7. CASE Return(t)
    <2>1. TaskIdle \in TaskRec /\ TaskIdle.pc = "idle"
        BY DEF TaskIdle, TaskRec
    <2>2. tk' = [tk EXCEPT ![t] = TaskIdle]
        BY <1>7 DEF Return
    <2> HIDE DEF TaskIdle
    <2>3. Typed
        BY <2>1, <2>2, TaskTyped
    <2>4. att' \in [Tasks -> [Addrs -> AttStates]]
        BY <1>7 DEF Return, TypeInv, TypeOK, AttStates, AttEnded
    <2> QED BY <1>7, <2>3, <2>4 DEF Return, TaskStep, TypeInv, TypeOK, LocalsOK, table
<1> QED BY <1>3, <1>4, <1>5, <1>6, <1>7 DEF Task

LEMMA TypeStep == TypeInv /\ [Next]_vars => TypeInv'
<1> SUFFICES ASSUME TypeInv, [Next]_vars  PROVE TypeInv'
    OBVIOUS
<1>1. CASE UNCHANGED vars
    BY <1>1 DEF vars, TypeInv, TypeOK, LocalsOK
<1>2. CASE Next
    BY <1>2, TypeUser, TypeArrival, TypeHandle, TypeAttempt, TypeTask DEF Next
<1> QED BY <1>1, <1>2

\* Every variable of the client keeps its type.
THEOREM ClientTypeCorrect == Spec => []TypeOK
<1>1. TypeInv => TypeOK
    BY DEF TypeInv
<1> QED BY TypeInit, TypeStep, <1>1, PTL DEF Spec

-----------------------------------------------------------------------------
(* The goroutines and the pending punches *)

PunchInv == GoroutinesOK /\ NoStalePending

LEMMA PunchInit == Init => PunchInv
    BY TaskPair DEF Init, PunchInv, GoroutinesOK, NoStalePending, Idle, TaskIdle

\* An idle handler that starts, or a busy one that goes on, with nothing else
\* changed.
LEMMA PunchHandler ==
    ASSUME TypeInv, PunchInv, NEW h \in Handlers, NEW r, hs' = [hs EXCEPT ![h] = r],
           \A p \in Peers : tk[<<h, p>>].pc = "idle", UNCHANGED punches
    PROVE  PunchInv'
<1>1. \A g \in Handlers : hs'[g] = IF g = h THEN r ELSE hs[g]
    BY DEF TypeInv, TypeOK
<1> QED BY <1>1 DEF PunchInv, GoroutinesOK, NoStalePending, punches

\* A busy handler that returns, starting the punches for S.
LEMMA PunchSpawn ==
    ASSUME TypeInv, PunchInv, NEW h \in Handlers, hs[h].pc # "idle",
           NEW S \in SUBSET Infos, Spawn(h, S), Finish(h), UNCHANGED pending
    PROVE  PunchInv'
<1> DEFINE new(t, i) == i.addrs # {} /\ t = <<h, i.id>>
           busy(t) == \E i \in S : new(t, i)
<1>1. /\ \A t \in Tasks : ~busy(t) => tk'[t] = tk[t]
      /\ \A t \in Tasks : busy(t) => tk'[t].pc = "start"
    BY DEF Spawn
<1>2. \A t \in Tasks, a \in Addrs : ~busy(t) => att'[t][a] = att[t][a]
    BY DEF Spawn
<1>3. \A g \in Handlers : hs'[g] = IF g = h THEN Idle ELSE hs[g]
    BY DEF Finish, TypeInv, TypeOK
<1>4. ASSUME NEW t \in Tasks, busy(t)
      PROVE  tk[t].pc = "idle" /\ \A g \in Handlers, p \in Peers : t = <<g, p>> => g = h
    <2>1. PICK i \in S : t = <<h, i.id>>
        BY <1>4
    <2>2. i.id \in Peers
        BY <2>1, InfoFields
    <2> QED BY <2>1, <2>2 DEF PunchInv, GoroutinesOK
<1> HIDE DEF busy
<1>5. ASSUME NEW g \in Handlers, NEW p \in Peers, hs'[g].pc # "idle"
      PROVE  tk'[<<g, p>>].pc = "idle"
    <2>1. g # h /\ hs[g].pc # "idle"
        BY <1>3, <1>5 DEF Idle
    <2>2. ~busy(<<g, p>>)
        BY <1>4, <2>1, TaskPair
    <2> QED BY <1>1, <2>1, <2>2, TaskPair DEF PunchInv, GoroutinesOK
<1>6. ASSUME NEW t \in Tasks, NEW a \in Addrs, tk'[t].pc = "idle"
      PROVE  att'[t][a] = "off"
    <2>1. ~busy(t)
        BY <1>1, <1>6
    <2> QED BY <1>1, <1>2, <1>6, <2>1 DEF PunchInv, GoroutinesOK
<1>7. ASSUME NEW a \in Addrs, pending[a] # None
      PROVE  att'[pending[a]][a] \in {"wait", "failed"}
    <2>1. pending[a] \in Tasks /\ att[pending[a]][a] \in {"wait", "failed"}
        BY <1>7 DEF TypeInv, TypeOK, PunchInv, NoStalePending
    <2>2. tk[pending[a]].pc # "idle"
        BY <2>1 DEF PunchInv, GoroutinesOK
    <2> QED BY <1>2, <1>4, <2>1, <2>2
<1> QED BY <1>5, <1>6, <1>7 DEF PunchInv, GoroutinesOK, NoStalePending

\* A handler that returns without a punch.
LEMMA PunchFinish ==
    ASSUME TypeInv, PunchInv, NEW h \in Handlers, Finish(h), UNCHANGED punches
    PROVE  PunchInv'
<1>1. \A g \in Handlers : hs'[g] = IF g = h THEN Idle ELSE hs[g]
    BY DEF Finish, TypeInv, TypeOK
<1> QED BY <1>1 DEF PunchInv, GoroutinesOK, NoStalePending, punches, Idle

LEMMA PunchArrival ==
    ASSUME TypeInv, PunchInv, NEW h \in Handlers, Arrival(h)
    PROVE  PunchInv'
<1>1. /\ \A p \in Peers : tk[<<h, p>>].pc = "idle"
      /\ UNCHANGED punches
      /\ \E r : hs' = [hs EXCEPT ![h] = r]
    BY DEF Arrival, RoomStatus, PeerAddress, PeerLeave, Send, Punch, Free
<1> QED BY <1>1, PunchHandler

LEMMA PunchHandle ==
    ASSUME TypeInv, PunchInv, NEW h \in Handlers, Handle(h)
    PROVE  PunchInv'
<1>1. hs[h].pc # "idle" /\ \A p \in Peers : tk[<<h, p>>].pc = "idle"
    <2>1. hs[h].pc # "idle"
        BY DEF Handle, StatusSelf, StatusPeer, StatusSpawn, AddressSpawn, LeaveDrop,
               PassiveInstall, SendLookup, SendRelay, At
    <2> QED BY <2>1 DEF PunchInv, GoroutinesOK
<1>2. CASE StatusSelf(h) \/ StatusPeer(h) \/ SendLookup(h)
    <2>1. UNCHANGED punches /\ \E r : hs' = [hs EXCEPT ![h] = r]
        BY <1>2 DEF StatusSelf, StatusPeer, SendLookup
    <2> QED BY <1>1, <2>1, PunchHandler
<1>3. CASE StatusSpawn(h)
    <2>1. hs[h].all \in SUBSET Infos
        BY DEF TypeInv, TypeOK, HandlerRec
    <2> QED BY <1>1, <1>3, <2>1, PunchSpawn DEF StatusSpawn
<1>4. CASE AddressSpawn(h)
    <2> DEFINE S == {hs[h].info}
    <2>1. S \in SUBSET Infos
        BY <1>4 DEF AddressSpawn, At, TypeInv, LocalsOK
    <2>2. Spawn(h, S) /\ Finish(h) /\ UNCHANGED pending
        BY <1>4 DEF AddressSpawn
    <2> HIDE DEF S
    <2> QED BY <1>1, <2>1, <2>2, PunchSpawn
<1>5. CASE LeaveDrop(h) \/ PassiveInstall(h) \/ SendRelay(h)
    BY <1>5, PunchFinish DEF LeaveDrop, PassiveInstall, SendRelay
<1> QED BY <1>2, <1>3, <1>4, <1>5 DEF Handle

LEMMA PunchUser == TypeInv /\ PunchInv /\ User => PunchInv'
<1> SUFFICES ASSUME TypeInv, PunchInv, User  PROVE PunchInv'
    OBVIOUS
<1>1. CASE JoinRoom \/ LeaveChannels \/ LeaveReset \/ Rejoin \/ RenewContext
    BY <1>1 DEF JoinRoom, LeaveChannels, LeaveReset, Rejoin, RenewContext, PunchInv, GoroutinesOK,
                NoStalePending, punches
<1>2. CASE LeavePunches
    <2>1. ASSUME NEW t \in Tasks, NEW a \in Addrs, tk[t].pc = "idle"
          PROVE  att'[t][a] = "off"
        <3>1. att[t][a] = "off"
            BY <2>1 DEF PunchInv, GoroutinesOK
        <3>2. pending[a] # t
            BY <3>1, TaskPair, NoneAssumption DEF PunchInv, NoStalePending
        <3> QED BY <1>2, <3>1, <3>2 DEF LeavePunches
    <2>2. tk' = tk /\ hs' = hs /\ \A a \in Addrs : pending'[a] = None
        BY <1>2 DEF LeavePunches
    <2> QED BY <2>1, <2>2 DEF PunchInv, GoroutinesOK, NoStalePending
<1>3. CASE CancelPunches
    <2>1. \A t \in Tasks : tk'[t].pc = "idle" <=> tk[t].pc = "idle"
        BY <1>3, CancelTasks
    <2>2. UNCHANGED <<hs, pending, att>>
        BY <1>3 DEF CancelPunches
    <2> QED BY <2>1, <2>2, TaskPair DEF PunchInv, GoroutinesOK, NoStalePending
<1> QED BY <1>1, <1>2, <1>3 DEF User

\* An attempt of a running punch that moves on.
LEMMA PunchAttempt ==
    ASSUME TypeInv, PunchInv, NEW a \in Addrs,
           Reply(a) \/ \E t \in Tasks : Attempt(t, a)
    PROVE  PunchInv'
<1>1. PICK t \in Tasks :
        \/ Reply(a) /\ pending[a] = t
        \/ Attempt(t, a)
    BY DEF Reply, TypeInv, TypeOK
<1>2. att[t][a] # "off"
    <2>1. CASE Reply(a) /\ pending[a] = t
        BY <2>1, NoneAssumption DEF Reply, PunchInv, NoStalePending
    <2>2. CASE Attempt(t, a)
        BY <2>2 DEF Attempt, Register, Succeed, GiveUp, Cleanup
    <2> QED BY <1>1, <2>1, <2>2
<1>3. tk[t].pc # "idle"
    BY <1>2 DEF PunchInv, GoroutinesOK
<1>4. /\ hs' = hs
      /\ \A s \in Tasks, b \in Addrs : <<s, b>> # <<t, a>> => att'[s][b] = att[s][b]
      /\ \A b \in Addrs : b # a => pending'[b] = pending[b]
    <2>1. CASE Reply(a) /\ pending[a] = t
        BY <2>1 DEF Reply, TypeInv, TypeOK
    <2>2. CASE Register(t, a)
        BY <2>2 DEF Register, TypeInv, TypeOK
    <2>3. CASE Succeed(t, a)
        BY <2>3 DEF Succeed, TypeInv, TypeOK
    <2>4. CASE GiveUp(t, a)
        BY <2>4 DEF GiveUp, TypeInv, TypeOK
    <2>5. CASE Cleanup(t, a)
        BY <2>5 DEF Cleanup, TypeInv, TypeOK
    <2> QED BY <1>1, <2>1, <2>2, <2>3, <2>4, <2>5 DEF Attempt
<1>5. \A s \in Tasks : tk'[s].pc = "idle" <=> tk[s].pc = "idle"
    <2>1. CASE Cleanup(t, a)
        <3> DEFINE r == [tk[t] EXCEPT !.win = a, !.pc = IF @ = "select" THEN "won" ELSE @]
        <3>1. tk[t] \in TaskRec
            BY DEF TypeInv, TypeOK
        <3>2. r.pc = "idle" <=> tk[t].pc = "idle"
            BY <3>1 DEF TaskRec
        <3>3. tk' = tk \/ tk' = [tk EXCEPT ![t] = r]
            BY <2>1 DEF Cleanup
        <3> HIDE DEF r
        <3> QED BY <3>2, <3>3 DEF TypeInv, TypeOK
    <2>2. CASE Reply(a) \/ Register(t, a) \/ Succeed(t, a) \/ GiveUp(t, a)
        BY <2>2 DEF Reply, Register, Succeed, GiveUp
    <2> QED BY <1>1, <2>1, <2>2 DEF Attempt
<1>6. pending'[a] # None => att'[pending'[a]][a] \in {"wait", "failed"}
    <2>1. CASE Reply(a) /\ pending[a] = t
        BY <2>1 DEF Reply, TypeInv, TypeOK
    <2>2. CASE Register(t, a)
        <3>1. CASE pending[a] = None
            BY <2>2, <3>1 DEF Register, TypeInv, TypeOK
        <3>2. CASE pending[a] # None
            <4>1. pending[a] # t /\ pending[a] \in Tasks /\ pending' = pending
                BY <2>2, <3>2 DEF Register, TypeInv, TypeOK, PunchInv, NoStalePending
            <4> QED BY <1>4, <3>2, <4>1 DEF PunchInv, NoStalePending
        <3> QED BY <3>1, <3>2
    <2>3. CASE Succeed(t, a)
        <3>1. pending[a] # t /\ pending' = pending
            BY <2>3, NoneAssumption DEF Succeed, PunchInv, NoStalePending, TypeInv, TypeOK
        <3> QED BY <1>4, <3>1 DEF TypeInv, TypeOK, PunchInv, NoStalePending
    <2>4. CASE GiveUp(t, a)
        <3>1. pending' = pending /\ att'[t][a] = "failed"
            BY <2>4 DEF GiveUp, TypeInv, TypeOK
        <3> QED BY <1>4, <3>1 DEF TypeInv, TypeOK, PunchInv, NoStalePending
    <2>5. CASE Cleanup(t, a)
        BY <2>5 DEF Cleanup, TypeInv, TypeOK
    <2> QED BY <1>1, <2>1, <2>2, <2>3, <2>4, <2>5 DEF Attempt
<1>7. \A h \in Handlers, p \in Peers : hs'[h].pc # "idle" => tk'[<<h, p>>].pc = "idle"
    BY <1>4, <1>5, TaskPair DEF PunchInv, GoroutinesOK
<1>8. \A s \in Tasks, b \in Addrs : tk'[s].pc = "idle" => att'[s][b] = "off"
    BY <1>3, <1>4, <1>5 DEF PunchInv, GoroutinesOK
<1>9. ASSUME NEW b \in Addrs, b # a, pending'[b] # None
      PROVE  att'[pending'[b]][b] \in {"wait", "failed"}
    BY <1>4, <1>9 DEF TypeInv, TypeOK, PunchInv, NoStalePending
<1> QED BY <1>6, <1>7, <1>8, <1>9 DEF PunchInv, GoroutinesOK, NoStalePending

LEMMA PunchTask ==
    ASSUME TypeInv, PunchInv, NEW t \in Tasks, Task(t)
    PROVE  PunchInv'
<1>1. CASE Return(t)
    <2>1. /\ tk' = [tk EXCEPT ![t] = TaskIdle]
          /\ att' = [att EXCEPT ![t] = [a \in Addrs |-> "off"]]
          /\ hs' = hs /\ pending' = pending
        BY <1>1 DEF Return, TaskStep
    <2>2. \A s \in Tasks : tk'[s] = IF s = t THEN TaskIdle ELSE tk[s]
        BY <2>1 DEF TypeInv, TypeOK
    <2>3. \A s \in Tasks, a \in Addrs : att'[s][a] = IF s = t THEN "off" ELSE att[s][a]
        BY <2>1 DEF TypeInv, TypeOK
    <2>4. \A a \in Addrs : pending[a] # t
        BY <1>1, TaskPair, NoneAssumption
           DEF Return, AllEnded, AttEnded, PunchInv, NoStalePending, TypeInv, TypeOK
    <2>5. TaskIdle.pc = "idle"
        BY DEF TaskIdle
    <2> HIDE DEF TaskIdle
    <2>6. \A h \in Handlers, p \in Peers : hs'[h].pc # "idle" => tk'[<<h, p>>].pc = "idle"
        BY <2>1, <2>2, <2>5, TaskPair DEF PunchInv, GoroutinesOK
    <2>7. \A s \in Tasks, a \in Addrs : tk'[s].pc = "idle" => att'[s][a] = "off"
        BY <2>2, <2>3 DEF PunchInv, GoroutinesOK
    <2>8. NoStalePending'
        BY <2>1, <2>3, <2>4 DEF TypeInv, TypeOK, PunchInv, NoStalePending
    <2> QED BY <2>6, <2>7, <2>8 DEF PunchInv, GoroutinesOK
<1>2. CASE Select(t) \/ AllFailed(t) \/ Connect(t) \/ Fallback(t)
    <2>1. /\ \E pc \in {"select", "won", "lost", "wrap"} : tk' = [tk EXCEPT ![t].pc = pc]
          /\ tk[t].pc # "idle" /\ att' = att /\ hs' = hs /\ pending' = pending
        BY <1>2 DEF Select, AllFailed, Connect, Fallback, TaskStep
    <2>2. \A s \in Tasks : tk'[s].pc = "idle" <=> tk[s].pc = "idle"
        BY <2>1 DEF TypeInv, TypeOK, TaskRec
    <2> QED BY <2>1, <2>2, TaskPair DEF PunchInv, GoroutinesOK, NoStalePending
<1> QED BY <1>1, <1>2 DEF Task

LEMMA PunchStep == TypeInv /\ PunchInv /\ [Next]_vars => PunchInv'
<1> SUFFICES ASSUME TypeInv, PunchInv, [Next]_vars  PROVE PunchInv'
    OBVIOUS
<1>1. CASE UNCHANGED vars
    BY <1>1 DEF vars, PunchInv, GoroutinesOK, NoStalePending
<1>2. CASE Next
    BY <1>2, PunchUser, PunchArrival, PunchHandle, PunchAttempt, PunchTask DEF Next
<1> QED BY <1>1, <1>2

-----------------------------------------------------------------------------
(* The records a goroutine works with *)

LEMMA RecordsInit == Init => RecordsOK
    BY DEF Init, RecordsOK, Idle, TaskIdle

\* A handler that starts or goes on with a list or an endpoint of one record.
LEMMA RecordsHandler ==
    ASSUME TypeInv, RecordsOK, NEW h \in Handlers, NEW r, hs' = [hs EXCEPT ![h] = r],
           r.pc = "status" => \A i, j \in r.all : i.id = j.id => i = j,
           r.pc = "passive" => r.addr \in r.info.addrs,
           \A p \in Peers : peers'[p] # None => peers'[p].id = p,
           UNCHANGED punches
    PROVE  RecordsOK'
<1>1. \A g \in Handlers : hs'[g] = IF g = h THEN r ELSE hs[g]
    BY DEF TypeInv, TypeOK
<1> QED BY <1>1 DEF RecordsOK, punches

\* A handler that returns.
LEMMA RecordsFinish ==
    ASSUME TypeInv, RecordsOK, NEW h \in Handlers, Finish(h), UNCHANGED <<peers, punches>>
    PROVE  RecordsOK'
<1>1. hs' = [hs EXCEPT ![h] = Idle] /\ Idle.pc = "idle"
    BY DEF Finish, Idle
<1> HIDE DEF Idle
<1> QED BY <1>1, RecordsHandler DEF RecordsOK

\* The attempts of a new punch are for the endpoints of its record, for S has one
\* record of a peer.
LEMMA RecordsSpawn ==
    ASSUME TypeInv, PunchInv, RecordsOK, NEW h \in Handlers, hs[h].pc # "idle",
           NEW S \in SUBSET Infos, \A i, j \in S : i.id = j.id => i = j,
           Spawn(h, S), Finish(h), UNCHANGED peers
    PROVE  RecordsOK'
<1> DEFINE new(t, i) == i.addrs # {} /\ t = <<h, i.id>>
           busy(t) == \E i \in S : new(t, i)
<1>1. ASSUME NEW t \in Tasks, busy(t)
      PROVE  /\ tk'[t].win = None
             /\ \A a \in Addrs : att'[t][a] # "off" => a \in tk'[t].info.addrs
    <2>1. PICK i \in S : new(t, i)
        BY <1>1
    <2>2. \A j \in S : new(t, j) => j = i
        BY <2>1
    <2>3. tk'[t] = [pc |-> "start", info |-> i, win |-> None]
        <3>1. (CHOOSE j \in S : new(t, j)) = i
            BY <2>1, <2>2
        <3> QED BY <1>1, <3>1 DEF Spawn
    <2>4. tk[t].pc = "idle"
        BY <2>1, InfoFields DEF PunchInv, GoroutinesOK
    <2>5. ASSUME NEW a \in Addrs, a \notin i.addrs  PROVE att'[t][a] = "off"
        <3>1. ~ \E j \in S : new(t, j) /\ a \in j.addrs
            BY <2>2, <2>5
        <3>2. att'[t][a] = att[t][a]
            BY <3>1 DEF Spawn
        <3> QED BY <2>4, <3>2 DEF PunchInv, GoroutinesOK
    <2> QED BY <2>3, <2>5
<1>2. ASSUME NEW t \in Tasks, ~busy(t)
      PROVE  tk'[t] = tk[t] /\ \A a \in Addrs : att'[t][a] = att[t][a]
    BY <1>2 DEF Spawn
<1>3. \A g \in Handlers : hs'[g].pc # "idle" => hs'[g] = hs[g]
    BY DEF Finish, Idle, TypeInv, TypeOK
<1> HIDE DEF busy
<1> QED BY <1>1, <1>2, <1>3 DEF RecordsOK

LEMMA RecordsArrival ==
    ASSUME TypeInv, RecordsOK, NEW h \in Handlers, Arrival(h)
    PROVE  RecordsOK'
<1>1. ASSUME NEW S \in SUBSET Infos, RoomStatus(h, S)  PROVE RecordsOK'
    <2> DEFINE r == [Idle EXCEPT !.pc = "status", !.todo = S, !.all = S, !.me = TRUE]
    <2>1. r.pc = "status" /\ r.all = S /\ hs' = [hs EXCEPT ![h] = r]
        BY <1>1 DEF RoomStatus, Idle
    <2>2. /\ \A i, j \in S : i.id = j.id => i = j
          /\ \A p \in Peers : peers'[p] = None
          /\ UNCHANGED punches
        BY <1>1 DEF RoomStatus, Reset
    <2> HIDE DEF r
    <2> QED BY <2>1, <2>2, RecordsHandler
<1>2. ASSUME NEW i \in Infos, PeerAddress(h, i) \/ PeerLeave(h, i)
      PROVE  RecordsOK'
    <2>1. i.id \in Peers
        BY InfoFields
    <2>2. \/ peers' = [peers EXCEPT ![i.id] = i]
          \/ peers' = [peers EXCEPT ![i.id] = None]
        BY <1>2 DEF PeerAddress, PeerLeave
    <2>3. \A p \in Peers : peers'[p] # None => peers'[p].id = p
        BY <2>1, <2>2 DEF RecordsOK, TypeInv, TypeOK
    <2> DEFINE r == [Idle EXCEPT !.pc = IF PeerAddress(h, i) THEN "address" ELSE "leave",
                                 !.info = i]
    <2>4. r.pc \in {"address", "leave"}
        BY DEF Idle
    <2>5. hs' = [hs EXCEPT ![h] = r] /\ UNCHANGED punches
        BY <1>2 DEF PeerAddress, PeerLeave
    <2> HIDE DEF r
    <2> QED BY <2>3, <2>4, <2>5, RecordsHandler
<1>3. ASSUME NEW a \in Addrs, Punch(h, a)  PROVE RecordsOK'
    <2>1. PICK p \in Peers :
            /\ a \in peers[p].addrs
            /\ hs' = [hs EXCEPT ![h] = [Idle EXCEPT !.pc = "passive", !.info = peers[p], !.addr = a]]
        BY <1>3 DEF Punch
    <2> DEFINE r == [Idle EXCEPT !.pc = "passive", !.info = peers[p], !.addr = a]
    <2>2. r.pc = "passive" /\ r.addr \in r.info.addrs
        BY <2>1 DEF Idle
    <2>3. hs' = [hs EXCEPT ![h] = r] /\ UNCHANGED <<peers, punches>>
        BY <1>3, <2>1 DEF Punch, table
    <2> HIDE DEF r
    <2> QED BY <2>2, <2>3, RecordsHandler DEF RecordsOK
<1>4. ASSUME NEW v, Send(h, v)  PROVE RecordsOK'
    <2>1. PICK p \in Peers :
            hs' = [hs EXCEPT ![h] = [Idle EXCEPT !.pc = "send", !.info = peers[p]]]
        BY <1>4 DEF Send
    <2> DEFINE r == [Idle EXCEPT !.pc = "send", !.info = peers[p]]
    <2>2. r.pc = "send"
        BY DEF Idle
    <2>3. hs' = [hs EXCEPT ![h] = r] /\ UNCHANGED <<peers, punches>>
        BY <1>4, <2>1 DEF Send, table
    <2> HIDE DEF r
    <2> QED BY <2>2, <2>3, RecordsHandler DEF RecordsOK
<1> QED BY <1>1, <1>2, <1>3, <1>4 DEF Arrival

LEMMA RecordsHandle ==
    ASSUME TypeInv, PunchInv, RecordsOK, NEW h \in Handlers, Handle(h)
    PROVE  RecordsOK'
<1>1. CASE StatusSelf(h)
    <2> DEFINE r == [hs[h] EXCEPT !.me = FALSE]
    <2>1. r.pc = "status" /\ r.all = hs[h].all /\ hs[h].pc = "status"
        BY <1>1 DEF StatusSelf, At, TypeInv, TypeOK, HandlerRec
    <2>2. hs' = [hs EXCEPT ![h] = r] /\ UNCHANGED <<peers, punches>>
        BY <1>1 DEF StatusSelf
    <2> HIDE DEF r
    <2> QED BY <2>1, <2>2, RecordsHandler DEF RecordsOK
<1>2. CASE StatusPeer(h)
    <2>1. PICK i \in hs[h].todo : /\ peers' = [peers EXCEPT ![i.id] = i]
                                  /\ hs' = [hs EXCEPT ![h].todo = @ \ {i}]
        BY <1>2 DEF StatusPeer
    <2> DEFINE r == [hs[h] EXCEPT !.todo = @ \ {i}]
    <2>2. r.pc = "status" /\ r.all = hs[h].all /\ hs[h].pc = "status" /\ i \in Infos
        BY <1>2 DEF StatusPeer, At, TypeInv, TypeOK, HandlerRec
    <2>3. hs' = [hs EXCEPT ![h] = r] /\ UNCHANGED punches
        BY <1>2, <2>1 DEF StatusPeer
    <2>4. \A p \in Peers : peers'[p] # None => peers'[p].id = p
        BY <2>1 DEF RecordsOK, TypeInv, TypeOK
    <2> HIDE DEF r
    <2> QED BY <2>2, <2>3, <2>4, RecordsHandler DEF RecordsOK
<1>3. CASE StatusSpawn(h)
    <2>1. /\ hs[h].all \in SUBSET Infos /\ hs[h].pc = "status"
          /\ \A i, j \in hs[h].all : i.id = j.id => i = j
        BY <1>3 DEF StatusSpawn, At, RecordsOK, TypeInv, TypeOK, HandlerRec
    <2> QED BY <1>3, <2>1, RecordsSpawn DEF StatusSpawn, table
<1>4. CASE AddressSpawn(h)
    <2> DEFINE S == {hs[h].info}
    <2>1. S \in SUBSET Infos /\ hs[h].pc # "idle" /\ \A i, j \in S : i = j
        BY <1>4 DEF AddressSpawn, At, TypeInv, LocalsOK
    <2>2. Spawn(h, S) /\ Finish(h) /\ UNCHANGED peers
        BY <1>4 DEF AddressSpawn, table
    <2> HIDE DEF S
    <2> QED BY <2>1, <2>2, RecordsSpawn
<1>5. CASE LeaveDrop(h) \/ PassiveInstall(h) \/ SendRelay(h)
    BY <1>5, RecordsFinish DEF LeaveDrop, PassiveInstall, SendRelay, table
<1>6. CASE SendLookup(h)
    <2> DEFINE r == IF channels[hs[h].info.id] # None THEN Idle ELSE [hs[h] EXCEPT !.pc = "relay"]
    <2>1. hs[h] \in HandlerRec
        BY DEF TypeInv, TypeOK
    <2>2. r.pc \in {"idle", "relay"}
        BY <2>1 DEF HandlerRec, Idle
    <2>3. hs' = [hs EXCEPT ![h] = r] /\ UNCHANGED <<peers, punches>>
        BY <1>6 DEF SendLookup, table
    <2> HIDE DEF r
    <2> QED BY <2>2, <2>3, RecordsHandler DEF RecordsOK
<1> QED BY <1>1, <1>2, <1>3, <1>4, <1>5, <1>6 DEF Handle

LEMMA RecordsUser == TypeInv /\ PunchInv /\ RecordsOK /\ User => RecordsOK'
<1> SUFFICES ASSUME TypeInv, PunchInv, RecordsOK, User  PROVE RecordsOK'
    OBVIOUS
<1>1. CASE JoinRoom \/ LeaveChannels \/ Rejoin \/ RenewContext
    BY <1>1 DEF JoinRoom, LeaveChannels, Rejoin, RenewContext, RecordsOK, punches, table
<1>2. CASE LeaveReset
    BY <1>2 DEF LeaveReset, Reset, RecordsOK, punches
<1>3. CASE LeavePunches
    <2>1. UNCHANGED <<hs, tk, peers>>
        BY <1>3 DEF LeavePunches, table
    <2>2. ASSUME NEW t \in Tasks, NEW a \in Addrs, att'[t][a] # "off"  PROVE att[t][a] # "off"
        <3>1. att'[t][a] = IF pending[a] = t THEN "woken" ELSE att[t][a]
            BY <1>3 DEF LeavePunches
        <3>2. CASE pending[a] = t
            BY <3>2, TaskPair, NoneAssumption DEF PunchInv, NoStalePending
        <3> QED BY <2>2, <3>1, <3>2
    <2> QED BY <2>1, <2>2 DEF RecordsOK
<1>4. CASE CancelPunches
    <2>1. \A t \in Tasks : tk'[t].info = tk[t].info /\ tk'[t].win = tk[t].win
        BY <1>4, CancelTasks
    <2>2. UNCHANGED <<hs, att, table>>
        BY <1>4 DEF CancelPunches
    <2> QED BY <2>1, <2>2 DEF RecordsOK, table
<1> QED BY <1>1, <1>2, <1>3, <1>4 DEF User

\* An attempt for an endpoint of its punch's record goes on, and may win.
LEMMA RecordsAttempt ==
    ASSUME TypeInv, PunchInv, RecordsOK, NEW a \in Addrs,
           Reply(a) \/ \E t \in Tasks : Attempt(t, a)
    PROVE  RecordsOK'
<1>1. PICK t \in Tasks :
        \/ Reply(a) /\ pending[a] = t
        \/ Attempt(t, a)
    BY DEF Reply, TypeInv, TypeOK
<1>2. att[t][a] # "off"
    <2>1. CASE Reply(a) /\ pending[a] = t
        BY <2>1, NoneAssumption DEF Reply, PunchInv, NoStalePending
    <2>2. CASE Attempt(t, a)
        BY <2>2 DEF Attempt, Register, Succeed, GiveUp, Cleanup
    <2> QED BY <1>1, <2>1, <2>2
<1>3. /\ UNCHANGED <<hs, peers>>
      /\ \A s \in Tasks, b \in Addrs : <<s, b>> # <<t, a>> => att'[s][b] = att[s][b]
    <2>1. CASE Reply(a) /\ pending[a] = t
        BY <2>1 DEF Reply, TypeInv, TypeOK, table
    <2>2. CASE Register(t, a)
        BY <2>2 DEF Register, TypeInv, TypeOK, table
    <2>3. CASE Succeed(t, a)
        BY <2>3 DEF Succeed, TypeInv, TypeOK, table
    <2>4. CASE GiveUp(t, a)
        BY <2>4 DEF GiveUp, TypeInv, TypeOK, table
    <2>5. CASE Cleanup(t, a)
        BY <2>5 DEF Cleanup, TypeInv, TypeOK, table
    <2> QED BY <1>1, <2>1, <2>2, <2>3, <2>4, <2>5 DEF Attempt
<1>4. /\ \A s \in Tasks : tk'[s].info = tk[s].info
      /\ \A s \in Tasks : tk'[s].win = tk[s].win \/ (s = t /\ tk'[s].win = a)
    <2>1. CASE Cleanup(t, a)
        <3> DEFINE r == [tk[t] EXCEPT !.win = a, !.pc = IF @ = "select" THEN "won" ELSE @]
        <3>1. r.info = tk[t].info /\ r.win = a
            BY DEF TypeInv, TypeOK, TaskRec
        <3>2. tk' = tk \/ tk' = [tk EXCEPT ![t] = r]
            BY <2>1 DEF Cleanup
        <3> HIDE DEF r
        <3> QED BY <3>1, <3>2 DEF TypeInv, TypeOK
    <2>2. CASE Reply(a) \/ Register(t, a) \/ Succeed(t, a) \/ GiveUp(t, a)
        BY <2>2 DEF Reply, Register, Succeed, GiveUp
    <2> QED BY <1>1, <2>1, <2>2 DEF Attempt
<1> QED BY <1>2, <1>3, <1>4 DEF RecordsOK

LEMMA RecordsTask ==
    ASSUME TypeInv, RecordsOK, NEW t \in Tasks, Task(t)
    PROVE  RecordsOK'
<1>1. CASE Return(t)
    <2>1. /\ tk' = [tk EXCEPT ![t] = TaskIdle]
          /\ att' = [att EXCEPT ![t] = [a \in Addrs |-> "off"]]
          /\ UNCHANGED <<hs, peers>>
        BY <1>1 DEF Return, TaskStep, table
    <2>2. \A s \in Tasks : tk'[s] = IF s = t THEN TaskIdle ELSE tk[s]
        BY <2>1 DEF TypeInv, TypeOK
    <2>3. \A s \in Tasks, a \in Addrs : att'[s][a] = IF s = t THEN "off" ELSE att[s][a]
        BY <2>1 DEF TypeInv, TypeOK
    <2>4. TaskIdle.win = None
        BY DEF TaskIdle
    <2> HIDE DEF TaskIdle
    <2> QED BY <2>1, <2>2, <2>3, <2>4 DEF RecordsOK
<1>2. CASE Select(t) \/ AllFailed(t) \/ Connect(t) \/ Fallback(t)
    <2>1. /\ \E pc \in {"select", "won", "lost", "wrap"} : tk' = [tk EXCEPT ![t].pc = pc]
          /\ UNCHANGED <<att, hs, peers>>
        BY <1>2 DEF Select, AllFailed, Connect, Fallback, TaskStep, table
    <2>2. \A s \in Tasks : tk'[s].info = tk[s].info /\ tk'[s].win = tk[s].win
        BY <2>1 DEF TypeInv, TypeOK, TaskRec
    <2> QED BY <2>1, <2>2 DEF RecordsOK
<1> QED BY <1>1, <1>2 DEF Task

LEMMA RecordsStep == TypeInv /\ PunchInv /\ RecordsOK /\ [Next]_vars => RecordsOK'
<1> SUFFICES ASSUME TypeInv, PunchInv, RecordsOK, [Next]_vars  PROVE RecordsOK'
    OBVIOUS
<1>1. CASE UNCHANGED vars
    BY <1>1 DEF vars, table, punches, RecordsOK
<1>2. CASE Next
    BY <1>2, RecordsUser, RecordsArrival, RecordsHandle, RecordsAttempt, RecordsTask DEF Next
<1> QED BY <1>1, <1>2

-----------------------------------------------------------------------------
(* The channels *)

\* What a step may do to the channels: nothing; a new channel, which leads to the
\* peer it is for and is no relay if there is a P2P channel; one channel closed and
\* dropped; all of them.
ChannelStep ==
    \/ UNCHANGED <<channels, chan>>
    \/ \E p \in Peers, rec \in ChanRec :
          Install(p, rec) /\ rec \in Routes[p] /\ (IsP2P(p) => rec.type = "p2p")
    \/ \E p \in Peers :
          /\ channels' = [channels EXCEPT ![p] = None]
          /\ chan' = [c \in Chans |-> IF c = channels[p] THEN None ELSE chan[c]]
    \/ LeaveChannels

\* A relay, or a direct link to an endpoint of the record, leads to the record's peer.
LEMMA RouteOf ==
    ASSUME NEW i \in Infos
    PROVE  /\ Relay(i.vip) \in Routes[i.id]
           /\ \A a \in i.addrs : P2P(a, i.vip) \in Routes[i.id]
<1>1. i.id \in Peers
    BY InfoFields
<1> QED BY <1>1 DEF Routes

LEMMA StepChannels == TypeInv /\ RecordsOK /\ [Next]_vars => ChannelStep
<1> SUFFICES ASSUME TypeInv, RecordsOK, [Next]_vars  PROVE ChannelStep
    OBVIOUS
<1>1. CASE UNCHANGED vars
    BY <1>1 DEF vars, ChannelStep
<1>2. CASE User
    BY <1>2 DEF User, JoinRoom, LeavePunches, LeaveReset, Rejoin, CancelPunches, RenewContext,
           ChannelStep
<1>3. ASSUME NEW h \in Handlers, Arrival(h)  PROVE ChannelStep
    BY <1>3 DEF Arrival, RoomStatus, PeerAddress, PeerLeave, Send, Punch, ChannelStep
<1>4. ASSUME NEW h \in Handlers, Handle(h)  PROVE ChannelStep
    <2>1. CASE StatusSelf(h) \/ StatusPeer(h) \/ StatusSpawn(h) \/ AddressSpawn(h) \/ SendLookup(h)
        BY <2>1 DEF StatusSelf, StatusPeer, StatusSpawn, AddressSpawn, SendLookup, ChannelStep
    <2>2. CASE LeaveDrop(h)
        <3>1. hs[h].info \in Infos
            BY <2>2 DEF LeaveDrop, At, TypeInv, LocalsOK
        <3> QED BY <2>2, <3>1, InfoFields DEF LeaveDrop, ChannelStep
    <2>3. CASE PassiveInstall(h)
        <3> DEFINE i == hs[h].info
        <3>1. i \in Infos /\ hs[h].addr \in Addrs /\ hs[h].addr \in i.addrs
            BY <2>3 DEF PassiveInstall, At, TypeInv, LocalsOK, RecordsOK
        <3>2. UNCHANGED <<channels, chan>> \/ Install(i.id, P2P(hs[h].addr, i.vip))
            BY <2>3 DEF PassiveInstall
        <3>3. i.id \in Peers /\ P2P(hs[h].addr, i.vip) \in ChanRec
              /\ P2P(hs[h].addr, i.vip).type = "p2p" /\ P2P(hs[h].addr, i.vip) \in Routes[i.id]
            BY <3>1, InfoFields, RouteOf
        <3> HIDE DEF i
        <3> QED BY <3>2, <3>3 DEF ChannelStep
    <2>4. CASE SendRelay(h)
        <3> DEFINE i == hs[h].info
        <3>1. i \in Infos
            BY <2>4 DEF SendRelay, At, TypeInv, LocalsOK
        <3>2. \/ UNCHANGED <<channels, chan>>
              \/ channels[i.id] = None /\ Install(i.id, Relay(i.vip))
            BY <2>4 DEF SendRelay
        <3>3. i.id \in Peers /\ Relay(i.vip) \in ChanRec /\ Relay(i.vip) \in Routes[i.id]
            BY <3>1, InfoFields, RouteOf
        <3>4. channels[i.id] = None => ~IsP2P(i.id)
            BY DEF IsP2P
        <3> QED BY <3>2, <3>3, <3>4 DEF ChannelStep
    <2> QED BY <1>4, <2>1, <2>2, <2>3, <2>4 DEF Handle
<1>5. ASSUME NEW a \in Addrs, Reply(a)  PROVE ChannelStep
    BY <1>5 DEF Reply, ChannelStep
<1>6. ASSUME NEW t \in Tasks, NEW a \in Addrs, Attempt(t, a)  PROVE ChannelStep
    BY <1>6 DEF Attempt, Register, Succeed, GiveUp, Cleanup, ChannelStep
<1>7. ASSUME NEW t \in Tasks, Task(t)  PROVE ChannelStep
    <2>1. CASE Select(t) \/ AllFailed(t) \/ Return(t)
        BY <2>1 DEF Select, AllFailed, Return, ChannelStep
    <2>2. CASE Connect(t)
        <3> DEFINE i == tk[t].info
                   rec == P2P(tk[t].win, i.vip)
        <3>1. i \in Infos /\ tk[t].win \in Addrs /\ tk[t].win \in i.addrs /\ Install(i.id, rec)
            BY <2>2, NoneAssumption DEF Connect, TypeInv, LocalsOK, RecordsOK
        <3>2. i.id \in Peers /\ rec \in ChanRec /\ rec.type = "p2p" /\ rec \in Routes[i.id]
            BY <3>1, InfoFields, RouteOf
        <3> HIDE DEF i, rec
        <3> QED BY <3>1, <3>2 DEF ChannelStep
    <2>3. CASE Fallback(t)
        <3> DEFINE i == tk[t].info
                   rec == Relay(i.vip)
        <3>1. i \in Infos
            <4>1. tk[t].pc = "lost"
                BY <2>3 DEF Fallback
            <4> QED BY <4>1 DEF TypeInv, LocalsOK
        <3>3. UNCHANGED <<channels, chan>> \/ (~IsP2P(i.id) /\ Install(i.id, rec))
            BY <2>3 DEF Fallback
        <3>2. i.id \in Peers /\ rec \in ChanRec /\ rec \in Routes[i.id]
            BY <3>1, InfoFields, RouteOf
        <3> HIDE DEF i, rec
        <3> QED BY <3>2, <3>3 DEF ChannelStep
    <2> QED BY <1>7, <2>1, <2>2, <2>3 DEF Task
<1> QED BY <1>1, <1>2, <1>3, <1>4, <1>5, <1>6, <1>7 DEF Next

\* What a new channel leaves behind.
LEMMA InstallEffect ==
    ASSUME TypeOK, ChannelsOwned, NEW p \in Peers, NEW rec \in ChanRec, Install(p, rec)
    PROVE  \E c \in Chans :
             /\ chan[c] = None /\ channels[p] # c
             /\ \A q \in Peers : channels'[q] = IF q = p THEN c ELSE channels[q]
             /\ \A x \in Chans : chan'[x] = IF x = c THEN rec
                                            ELSE IF x = channels[p] THEN None ELSE chan[x]
<1>1. PICK c \in Chans :
         /\ chan[c] = None
         /\ channels' = [channels EXCEPT ![p] = c]
         /\ chan' = [x \in Chans |-> IF x = c THEN rec
                                     ELSE IF x = channels[p] THEN None ELSE chan[x]]
    BY DEF Install
<1>2. channels[p] # c
    BY <1>1, NoneAssumption DEF ChannelsOwned
<1> QED BY <1>1, <1>2 DEF TypeOK

LEMMA OwnedInit == Init => ChannelsOwned
    BY DEF Init, ChannelsOwned

LEMMA OwnedStep ==
    ASSUME TypeOK, ChannelsOwned, ChannelStep
    PROVE  ChannelsOwned'
<1>0. None \notin Chans /\ None \notin ChanRec
    BY NoneAssumption
<1>1. CASE UNCHANGED <<channels, chan>>
    BY <1>1 DEF ChannelsOwned
<1>2. ASSUME NEW p \in Peers, NEW rec \in ChanRec, Install(p, rec)  PROVE ChannelsOwned'
    <2>1. PICK c \in Chans :
             /\ chan[c] = None /\ channels[p] # c
             /\ \A q \in Peers : channels'[q] = IF q = p THEN c ELSE channels[q]
             /\ \A x \in Chans : chan'[x] = IF x = c THEN rec
                                            ELSE IF x = channels[p] THEN None ELSE chan[x]
        BY <1>2, InstallEffect
    <2>2. \A q \in Peers : channels[q] # c
        BY <1>0, <2>1 DEF ChannelsOwned
    <2>3. ASSUME NEW x \in Chans, chan'[x] # None  PROVE \E q \in Peers : channels'[q] = x
        <3>1. CASE x = c
            BY <2>1, <3>1
        <3>2. CASE x # c
            <4>1. chan[x] # None /\ x # channels[p]
                BY <2>1, <2>3, <3>2
            <4>2. PICK q \in Peers : channels[q] = x
                BY <4>1 DEF ChannelsOwned
            <4> QED BY <2>1, <4>1, <4>2
        <3> QED BY <3>1, <3>2
    <2>4. ASSUME NEW q \in Peers, NEW r \in Peers,
                 channels'[q] # None, channels'[q] = channels'[r]
          PROVE  q = r
        BY <2>1, <2>2, <2>4 DEF ChannelsOwned
    <2>5. ASSUME NEW q \in Peers, channels'[q] # None  PROVE chan'[channels'[q]] # None
        <3>1. CASE q = p
            BY <1>0, <2>1, <3>1
        <3>2. CASE q # p
            <4>1. channels'[q] = channels[q] /\ channels[q] # None /\ channels[q] \in Chans
                BY <2>1, <2>5, <3>2 DEF TypeOK
            <4>2. channels[q] # channels[p] /\ channels[q] # c /\ chan[channels[q]] # None
                BY <2>2, <3>2, <4>1 DEF ChannelsOwned
            <4> QED BY <2>1, <4>1, <4>2
        <3> QED BY <3>1, <3>2
    <2> QED BY <2>3, <2>4, <2>5 DEF ChannelsOwned
<1>3. ASSUME NEW p \in Peers, channels' = [channels EXCEPT ![p] = None],
             chan' = [c \in Chans |-> IF c = channels[p] THEN None ELSE chan[c]]
      PROVE  ChannelsOwned'
    <2>1. /\ \A q \in Peers : channels'[q] = IF q = p THEN None ELSE channels[q]
          /\ \A x \in Chans : chan'[x] = IF x = channels[p] THEN None ELSE chan[x]
        BY <1>3 DEF TypeOK
    <2>2. ASSUME NEW x \in Chans, chan'[x] # None  PROVE \E q \in Peers : channels'[q] = x
        BY <2>1, <2>2 DEF ChannelsOwned
    <2>3. ASSUME NEW q \in Peers, NEW r \in Peers,
                 channels'[q] # None, channels'[q] = channels'[r]
          PROVE  q = r
        BY <2>1, <2>3 DEF ChannelsOwned
    <2>4. ASSUME NEW q \in Peers, channels'[q] # None  PROVE chan'[channels'[q]] # None
        <3>1. q # p /\ channels'[q] = channels[q] /\ channels[q] \in Chans
            BY <2>1, <2>4 DEF TypeOK
        <3>2. channels[q] # channels[p] /\ chan[channels[q]] # None
            BY <2>4, <3>1 DEF ChannelsOwned
        <3> QED BY <2>1, <3>1, <3>2
    <2> QED BY <2>2, <2>3, <2>4 DEF ChannelsOwned
<1>4. CASE LeaveChannels
    BY <1>4 DEF LeaveChannels, ChannelsOwned
<1> QED BY <1>1, <1>2, <1>3, <1>4 DEF ChannelStep

\* A P2P channel never gives way to a relay.
LEMMA DowngradeStep ==
    ASSUME TypeOK, ChannelsOwned, ChannelStep,
           NEW q \in Peers, IsP2P(q), channels'[q] # None
    PROVE  chan'[channels'[q]].type = "p2p"
<1>1. channels[q] \in Chans /\ chan[channels[q]] # None /\ chan[channels[q]].type = "p2p"
    BY DEF IsP2P, TypeOK, ChannelsOwned
<1>2. CASE UNCHANGED <<channels, chan>>
    BY <1>1, <1>2
<1>3. ASSUME NEW p \in Peers, NEW rec \in ChanRec, Install(p, rec), IsP2P(p) => rec.type = "p2p"
      PROVE  chan'[channels'[q]].type = "p2p"
    <2>1. PICK c \in Chans :
             /\ chan[c] = None /\ channels[p] # c
             /\ \A r \in Peers : channels'[r] = IF r = p THEN c ELSE channels[r]
             /\ \A x \in Chans : chan'[x] = IF x = c THEN rec
                                            ELSE IF x = channels[p] THEN None ELSE chan[x]
        BY <1>3, InstallEffect
    <2>2. CASE q = p
        BY <1>3, <2>1, <2>2
    <2>3. CASE q # p
        <3>1. channels'[q] = channels[q] /\ channels[q] # c
            BY <1>1, <2>1, <2>3
        <3>2. channels[q] # channels[p]
            BY <1>1, <2>3, NoneAssumption DEF ChannelsOwned
        <3> QED BY <1>1, <2>1, <3>1, <3>2
    <2> QED BY <2>2, <2>3
<1>4. ASSUME NEW p \in Peers, channels' = [channels EXCEPT ![p] = None],
             chan' = [c \in Chans |-> IF c = channels[p] THEN None ELSE chan[c]]
      PROVE  chan'[channels'[q]].type = "p2p"
    <2>1. q # p /\ channels'[q] = channels[q]
        BY <1>4 DEF TypeOK
    <2>2. channels[q] # channels[p]
        BY <1>1, <2>1, NoneAssumption DEF ChannelsOwned
    <2> QED BY <1>1, <1>4, <2>1, <2>2
<1>5. CASE LeaveChannels
    BY <1>5 DEF LeaveChannels
<1> QED BY <1>2, <1>3, <1>4, <1>5 DEF ChannelStep

-----------------------------------------------------------------------------
(* The links *)

\* An open channel is the link to some peer, and a peer's link is open.
LEMMA OpenAreLinks ==
    ASSUME TypeOK, ChannelsOwned
    PROVE  OpenLinks = {LinkTo[p] : p \in Peers} \ {None}
<1>1. ASSUME NEW c \in Chans, chan[c] # None  PROVE \E p \in Peers : LinkTo[p] = chan[c]
    <2>1. PICK p \in Peers : channels[p] = c
        BY <1>1 DEF ChannelsOwned
    <2>2. channels[p] # None
        BY <2>1, NoneAssumption
    <2> QED BY <2>1, <2>2 DEF LinkTo
<1>2. ASSUME NEW p \in Peers, LinkTo[p] # None  PROVE \E c \in Chans : chan[c] = LinkTo[p]
    BY <1>2 DEF LinkTo, TypeOK
<1> QED BY <1>1, <1>2 DEF OpenLinks

\* The link to a peer after a channel was installed.
LEMMA LinkEstablished ==
    ASSUME TypeOK, ChannelsOwned, NEW p \in Peers, NEW rec \in ChanRec, Install(p, rec),
           rec \in Routes[p], IsP2P(p) => rec.type = "p2p"
    PROVE  Links!Establish(p)
<1>0. None \notin Chans /\ None \notin ChanRec
    BY NoneAssumption
<1>1. PICK c \in Chans :
         /\ chan[c] = None /\ channels[p] # c
         /\ \A q \in Peers : channels'[q] = IF q = p THEN c ELSE channels[q]
         /\ \A x \in Chans : chan'[x] = IF x = c THEN rec
                                        ELSE IF x = channels[p] THEN None ELSE chan[x]
    BY InstallEffect
<1>2. LinkTo'[p] = rec
    BY <1>0, <1>1 DEF LinkTo
<1>3. ASSUME NEW q \in Peers, q # p  PROVE LinkTo'[q] = LinkTo[q]
    <2>1. channels'[q] = channels[q]
        BY <1>1, <1>3
    <2>2. CASE channels[q] = None
        BY <2>1, <2>2 DEF LinkTo
    <2>3. CASE channels[q] # None
        <3>1. channels[q] \in Chans /\ channels[q] # channels[p] /\ chan[channels[q]] # None
            BY <1>3, <2>3 DEF ChannelsOwned, TypeOK
        <3>2. chan'[channels[q]] = chan[channels[q]]
            BY <1>1, <3>1
        <3> QED BY <2>1, <2>3, <3>2 DEF LinkTo
    <2> QED BY <2>2, <2>3
<1>4. LinkTo' = [LinkTo EXCEPT ![p] = rec]
    BY <1>2, <1>3 DEF LinkTo
<1>5. Links!Direct(p) => rec.type = "p2p"
    BY DEF Links!Direct, LinkTo, IsP2P
<1> QED BY <1>4, <1>5 DEF Links!Establish

\* The links after one channel was dropped, and after all were.
LEMMA LinkLost ==
    ASSUME TypeOK, ChannelsOwned, NEW p \in Peers,
           channels' = [channels EXCEPT ![p] = None],
           chan' = [c \in Chans |-> IF c = channels[p] THEN None ELSE chan[c]]
    PROVE  Links!Lose({p})
<1>1. channels'[p] = None /\ LinkTo'[p] = None
    BY DEF TypeOK, LinkTo
<1>2. ASSUME NEW q \in Peers, q # p  PROVE LinkTo'[q] = LinkTo[q]
    <2>1. channels'[q] = channels[q]
        BY <1>2 DEF TypeOK
    <2>2. CASE channels[q] = None
        BY <2>1, <2>2 DEF LinkTo
    <2>3. CASE channels[q] # None
        <3>1. channels[q] \in Chans /\ channels[q] # channels[p]
            BY <1>2, <2>3 DEF ChannelsOwned, TypeOK
        <3> QED BY <2>1, <2>3, <3>1 DEF LinkTo
    <2> QED BY <2>2, <2>3
<1> QED BY <1>1, <1>2 DEF LinkTo, Links!Lose

LEMMA LinksStep ==
    ASSUME TypeOK, ChannelsOwned, ChannelStep, OpenLinks' = {LinkTo'[p] : p \in Peers} \ {None}
    PROVE  [Links!Next]_(Links!vars)
<1>1. CASE UNCHANGED <<channels, chan>>
    BY <1>1 DEF Links!vars, LinkTo, OpenLinks
<1>2. CASE \E p \in Peers, rec \in ChanRec :
              Install(p, rec) /\ rec \in Routes[p] /\ (IsP2P(p) => rec.type = "p2p")
    BY <1>2, LinkEstablished DEF Links!Next
<1>3. CASE \E p \in Peers :
              /\ channels' = [channels EXCEPT ![p] = None]
              /\ chan' = [c \in Chans |-> IF c = channels[p] THEN None ELSE chan[c]]
    <2>1. PICK p \in Peers : Links!Lose({p})
        BY <1>3, LinkLost
    <2> QED BY <2>1 DEF Links!Next
<1>4. CASE LeaveChannels
    <2>1. Links!Lose(Peers)
        BY <1>4 DEF LeaveChannels, Links!Lose, LinkTo
    <2> QED BY <2>1 DEF Links!Next
<1> QED BY <1>1, <1>2, <1>3, <1>4 DEF ChannelStep

-----------------------------------------------------------------------------
(* The theorems *)

\* The inductive invariant of the client.
THEOREM ClientInvCorrect == Spec => []ClientInv
<1>1. Init => ClientInv
    BY TypeInit, OwnedInit, PunchInit, RecordsInit DEF ClientInv, TypeInv, PunchInv
<1>2. ClientInv /\ [Next]_vars => ClientInv'
    <2> SUFFICES ASSUME ClientInv, [Next]_vars  PROVE ClientInv'
        OBVIOUS
    <2>1. TypeInv /\ PunchInv /\ RecordsOK /\ TypeOK /\ ChannelsOwned
        BY DEF ClientInv, TypeInv, PunchInv
    <2>2. TypeInv' /\ PunchInv' /\ RecordsOK' /\ ChannelsOwned'
        BY <2>1, TypeStep, PunchStep, RecordsStep, StepChannels, OwnedStep
    <2> QED BY <2>2 DEF ClientInv, TypeInv, PunchInv
<1> QED BY <1>1, <1>2, PTL DEF Spec

\* Every open channel is the one channel of one peer.
THEOREM ChannelsCorrect == Spec => []ChannelsOwned
<1>1. ClientInv => ChannelsOwned
    BY DEF ClientInv
<1> QED BY <1>1, ClientInvCorrect, PTL

\* An entry of pendingPunches belongs to an attempt that has not ended.
THEOREM PendingCorrect == Spec => []NoStalePending
<1>1. ClientInv => NoStalePending
    BY DEF ClientInv
<1> QED BY <1>1, ClientInvCorrect, PTL

\* No step replaces a P2P channel by a relay.
THEOREM NoDowngradeCorrect == Spec => NoDowngrade
<1> DEFINE A == \A p \in Peers :
                  IsP2P(p) /\ channels'[p] # None => chan'[channels'[p]].type = "p2p"
<1>1. ClientInv /\ [Next]_vars => [A]_vars
    BY StepChannels, DowngradeStep DEF ClientInv, TypeInv
<1> QED BY <1>1, ClientInvCorrect, PTL DEF Spec, NoDowngrade

\* The channels implement the links: one to a peer, to an endpoint and a virtual
\* IP of one of its records; direct links are not replaced by relayed ones, and
\* no link is open that is not some peer's.
THEOREM LinksCorrect == Spec => LinksImplemented
<1>1. Init => Links!Init
    BY DEF Init, Links!Init, LinkTo, OpenLinks
<1>2. ClientInv /\ ClientInv' /\ [Next]_vars => [Links!Next]_(Links!vars)
    <2> DEFINE Linked == OpenLinks = {LinkTo[p] : p \in Peers} \ {None}
    <2>1. TypeOK /\ ChannelsOwned => Linked
        BY OpenAreLinks
    <2>2. (TypeOK /\ ChannelsOwned)' => Linked'
        BY <2>1, PTL
    <2> SUFFICES ASSUME ClientInv, ClientInv', [Next]_vars  PROVE [Links!Next]_(Links!vars)
        OBVIOUS
    <2>3. TypeInv /\ RecordsOK /\ TypeOK /\ ChannelsOwned
        BY DEF ClientInv, TypeInv
    <2>4. ChannelStep
        BY <2>3, StepChannels
    <2>5. Linked'
        BY <2>2 DEF ClientInv
    <2> QED BY <2>3, <2>4, <2>5, LinksStep
<1> QED BY <1>1, <1>2, ClientInvCorrect, PTL DEF Spec, LinksImplemented, Links!Spec

=============================================================================
