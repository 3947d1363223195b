---------------------------- MODULE PeerChannels ----------------------------
(***************************************************************************)
(* One NetBridge client connected to a server: the peer table              *)
(* (client/peer), the channels (client/netconn), the pending punches and   *)
(* the goroutines of client/core that share them.  UDPConn.Start handles   *)
(* every datagram in a goroutine of its own; handleRoomStatus and          *)
(* handlePeerAddress start punchPeer goroutines, and each of these starts  *)
(* one punchOne per candidate address.  An action is one critical section  *)
(* of peer.Manager.mu, channelsMu or pendingPunchesMu, or one choice of a  *)
(* select.  Timers are abstract: a timeout may come at any moment.         *)
(***************************************************************************)
EXTENDS Naturals, FiniteSets

CONSTANTS
    Peers,     \* the other clients
    Addrs,     \* public endpoints
    Infos,     \* the PeerInfo records the server may send
    Handlers,  \* slots for goroutines that handle a datagram or send a packet
    Chans,     \* channel objects; bounds how many are open at once
    Kinds,     \* what may arrive or be called
    Late,      \* whether datagrams of the room still arrive after LeaveRoom
    None

EventKinds == {"RoomStatus", "PeerAddress", "PeerLeave", "Punch", "Send", "Disconnect"}

ASSUME KindsAssumption == Kinds \subseteq EventKinds
ASSUME LateAssumption == Late \in BOOLEAN
ASSUME InfosAssumption == Infos \subseteq [id: Peers, vip: Nat \ {0}, addrs: SUBSET Addrs]

\* A handler starts at most one punchPeer per peer: the goroutine <<h, p>>.
Tasks == Handlers \X Peers
\* A channel is its type, the endpoint of a P2P channel and the target's VIP.
\* (The own VIP a channel stamps on its frames is left out.)
ChanRec == [type: {"p2p"}, addr: Addrs, dst: {i.vip : i \in Infos}] \cup
           [type: {"relay"}, addr: {None}, dst: {i.vip : i \in Infos}]

ASSUME NoneAssumption == None \notin Infos \cup Addrs \cup Tasks \cup Chans \cup ChanRec

VARIABLES
    room,      \* how far JoinRoom and LeaveRoom have got
    self,      \* peer.Manager.self: whether the own entry is known
    peers,     \* peer.Manager.peers : Peers -> Infos or None
    channels,  \* Client.channels : Peers -> Chans or None
    chan,      \* the open channels; the pingLoop of a P2P channel runs while it is open
    pending,   \* Client.pendingPunches : Addrs -> the task whose attempt waits, or None
    hs,        \* the local variables of the handlers
    tk,        \* the local variables of the punchPeer goroutines
    att        \* where each punchOne goroutine of a task is, by address

vars == <<room, self, peers, channels, chan, pending, hs, tk, att>>
table == <<self, peers>>
punches == <<pending, tk, att>>

Idle == [pc |-> "idle", todo |-> {}, all |-> {}, me |-> FALSE, info |-> None, addr |-> None]
TaskIdle == [pc |-> "idle", info |-> None, win |-> None]

Init ==
    /\ room = "out"
    /\ self = FALSE
    /\ peers = [p \in Peers |-> None]
    /\ channels = [p \in Peers |-> None]
    /\ chan = [c \in Chans |-> None]
    /\ pending = [a \in Addrs |-> None]
    /\ hs = [h \in Handlers |-> Idle]
    /\ tk = [t \in Tasks |-> TaskIdle]
    /\ att = [t \in Tasks |-> [a \in Addrs |-> "off"]]

-----------------------------------------------------------------------------
(* Channels                                                                *)

IsP2P(p) == channels[p] # None /\ chan[channels[p]].type = "p2p"

P2P(a, dst) == [type |-> "p2p", addr |-> a, dst |-> dst]
Relay(dst) == [type |-> "relay", addr |-> None, dst |-> dst]

\* Mutant: the channel there was stays open.
Install_NoClose(p, rec) ==
    \E c \in Chans :
        /\ chan[c] = None
        /\ channels' = [channels EXCEPT ![p] = c]
        /\ chan' = [chan EXCEPT ![c] = rec]

\* A new channel to p takes the place of the one there was, which is closed.
Install(p, rec) ==
    \E c \in Chans :
        /\ chan[c] = None
        /\ channels' = [channels EXCEPT ![p] = c]
        /\ chan' = [x \in Chans |-> IF x = c THEN rec
                                    ELSE IF x = channels[p] THEN None ELSE chan[x]]

\* The attempts of a punchPeer have returned.
AttEnded == {"off", "dup", "lost", "ended"}
AllEnded(t) == \A a \in Addrs : att[t][a] \in AttEnded

-----------------------------------------------------------------------------
(* The user: JoinRoom, LeaveRoom and Disconnect                            *)

JoinRoom ==
    /\ room = "out"
    /\ room' = "in"
    /\ UNCHANGED <<table, channels, chan, punches, hs>>

\* LeaveRoom closes every pending notification: each attempt that waits wakes.
LeavePunches ==
    /\ room = "in"
    /\ pending' = [a \in Addrs |-> None]
    /\ att' = [t \in Tasks |-> [a \in Addrs |->
                 IF pending[a] = t THEN "woken" ELSE att[t][a]]]
    /\ room' = "close"
    /\ UNCHANGED <<table, channels, chan, hs, tk>>

\* It closes every channel.
LeaveChannels ==
    /\ room = "close"
    /\ channels' = [p \in Peers |-> None]
    /\ chan' = [c \in Chans |-> IF \E p \in Peers : channels[p] = c THEN None ELSE chan[c]]
    /\ room' = "reset"
    /\ UNCHANGED <<table, punches, hs>>

\* peer.Manager.Reset
Reset == self' = FALSE /\ peers' = [p \in Peers |-> None]

LeaveReset ==
    /\ room = "reset"
    /\ Reset
    /\ room' = "left"
    /\ UNCHANGED <<channels, chan, punches, hs>>

Rejoin ==
    /\ room = "left"
    /\ room' = "in"
    /\ UNCHANGED <<table, channels, chan, punches, hs>>

\* Disconnect calls LeaveRoom and then cancels c.ctx: a punchPeer that waits in
\* its select returns, unless the end of all attempts woke it before.
CancelPunches ==
    /\ "Disconnect" \in Kinds /\ room = "left"
    /\ \E S \in SUBSET {t \in Tasks : tk[t].pc = "select" /\ AllEnded(t)} :
          tk' = [t \in Tasks |-> IF tk[t].pc = "select" /\ t \notin S
                                 THEN [tk[t] EXCEPT !.pc = "wrap"] ELSE tk[t]]
    /\ room' = "cancelled"
    /\ UNCHANGED <<table, channels, chan, hs, pending, att>>

\* The next context is there; JoinRoom comes after the next Connect.
RenewContext ==
    /\ room = "cancelled"
    /\ room' = "out"
    /\ UNCHANGED <<table, channels, chan, punches, hs>>

-----------------------------------------------------------------------------
(* The datagrams of the server                                             *)

At(h, pc) == hs[h].pc = pc
Finish(h) == hs' = [hs EXCEPT ![h] = Idle]

\* The client has joined, and the slot is free.
Free(h, kind) ==
    /\ kind \in Kinds /\ (room = "in" \/ (Late /\ room # "out"))
    /\ At(h, "idle") /\ \A p \in Peers : tk[<<h, p>>].pc = "idle"

\* go punchPeer(i) for each i of S: one attempt per candidate address starts,
\* and a peer without any is skipped.
Spawn(h, S) ==
    LET new(t, i) == i.addrs # {} /\ t = <<h, i.id>>
    IN  /\ tk' = [t \in Tasks |->
                    IF \E i \in S : new(t, i)
                    THEN [pc |-> "start", info |-> CHOOSE i \in S : new(t, i), win |-> None]
                    ELSE tk[t]]
        /\ att' = [t \in Tasks |-> [a \in Addrs |->
                    IF \E i \in S : new(t, i) /\ a \in i.addrs THEN "start" ELSE att[t][a]]]

\* handleRoomStatus: Reset, then the entries one at a time in the order of the
\* list, the own one among them; then one punchPeer per other entry.
RoomStatus(h, S) ==
    /\ Free(h, "RoomStatus")
    /\ \A i, j \in S : i.id = j.id => i = j
    /\ Reset
    /\ hs' = [hs EXCEPT ![h] = [Idle EXCEPT !.pc = "status", !.todo = S, !.all = S, !.me = TRUE]]
    /\ UNCHANGED <<room, channels, chan, punches>>

StatusSelf(h) ==
    /\ At(h, "status") /\ hs[h].me
    /\ self' = TRUE
    /\ hs' = [hs EXCEPT ![h].me = FALSE]
    /\ UNCHANGED <<room, peers, channels, chan, punches>>

StatusPeer(h) ==
    /\ At(h, "status")
    /\ \E i \in hs[h].todo :
          /\ peers' = [peers EXCEPT ![i.id] = i]
          /\ hs' = [hs EXCEPT ![h].todo = @ \ {i}]
    /\ UNCHANGED <<room, self, channels, chan, punches>>

StatusSpawn(h) ==
    /\ At(h, "status") /\ ~hs[h].me /\ hs[h].todo = {}
    /\ Spawn(h, hs[h].all)
    /\ Finish(h)
    /\ UNCHANGED <<room, table, channels, chan, pending>>

\* handlePeerAddress: Upsert, then punchPeer.
PeerAddress(h, i) ==
    /\ Free(h, "PeerAddress")
    /\ peers' = [peers EXCEPT ![i.id] = i]
    /\ hs' = [hs EXCEPT ![h] = [Idle EXCEPT !.pc = "address", !.info = i]]
    /\ UNCHANGED <<room, self, channels, chan, punches>>

AddressSpawn(h) ==
    /\ At(h, "address")
    /\ Spawn(h, {hs[h].info})
    /\ Finish(h)
    /\ UNCHANGED <<room, table, channels, chan, pending>>

\* handlePeerLeave: Remove, then the channel.
PeerLeave(h, i) ==
    /\ Free(h, "PeerLeave")
    /\ peers' = [peers EXCEPT ![i.id] = None]
    /\ hs' = [hs EXCEPT ![h] = [Idle EXCEPT !.pc = "leave", !.info = i]]
    /\ UNCHANGED <<room, self, channels, chan, punches>>

\* Mutant: the channel is dropped but not closed.
LeaveDrop_NoClose(h) ==
    /\ At(h, "leave")
    /\ channels' = [channels EXCEPT ![hs[h].info.id] = None]
    /\ Finish(h)
    /\ UNCHANGED <<room, table, chan, punches>>

\* The channel is closed and dropped.
LeaveDrop(h) ==
    /\ At(h, "leave")
    /\ LET p == hs[h].info.id
       IN  /\ channels' = [channels EXCEPT ![p] = None]
           /\ chan' = [c \in Chans |-> IF c = channels[p] THEN None ELSE chan[c]]
    /\ Finish(h)
    /\ UNCHANGED <<room, table, punches>>

-----------------------------------------------------------------------------
(* The datagrams of the peers: handleIncomingPunch                         *)

\* A punch_reply from a: the attempt that waits for it, if any, is woken.
Reply(a) ==
    /\ pending[a] # None
    /\ att' = [att EXCEPT ![pending[a]][a] = "told"]
    /\ pending' = [pending EXCEPT ![a] = None]
    /\ UNCHANGED <<room, table, channels, chan, hs, tk>>

\* Mutant: the first peer of the list is taken, whatever its addresses.
Punch_AnyPeer(h, a) ==
    /\ Free(h, "Punch")
    /\ \E p \in Peers :
          /\ peers[p] # None
          /\ hs' = [hs EXCEPT ![h] = [Idle EXCEPT !.pc = "passive", !.info = peers[p], !.addr = a]]
    /\ UNCHANGED <<room, table, channels, chan, punches>>

\* A punch from a, or an ordinary ping: createPassiveP2P looks for a peer of
\* the list with this address.
Punch(h, a) ==
    /\ Free(h, "Punch")
    /\ \E p \in Peers :
          /\ peers[p] # None /\ a \in peers[p].addrs
          /\ hs' = [hs EXCEPT ![h] = [Idle EXCEPT !.pc = "passive", !.info = peers[p], !.addr = a]]
    /\ UNCHANGED <<room, table, channels, chan, punches>>

PassiveInstall(h) ==
    /\ At(h, "passive")
    /\ LET i == hs[h].info
       IN  IF IsP2P(i.id) THEN UNCHANGED <<channels, chan>>
           ELSE Install(i.id, P2P(hs[h].addr, i.vip))
    /\ Finish(h)
    /\ UNCHANGED <<room, table, punches>>

-----------------------------------------------------------------------------
(* Sending a packet: channelForVIP                                         *)

\* GetByVIP: the peer with this VIP.
Send(h, vip) ==
    /\ Free(h, "Send")
    /\ \E p \in Peers :
          /\ peers[p] # None /\ peers[p].vip = vip
          /\ hs' = [hs EXCEPT ![h] = [Idle EXCEPT !.pc = "send", !.info = peers[p]]]
    /\ UNCHANGED <<room, table, channels, chan, punches>>

\* Its channel, if it has one.
SendLookup(h) ==
    /\ At(h, "send")
    /\ hs' = [hs EXCEPT ![h] = IF channels[hs[h].info.id] # None THEN Idle
                               ELSE [@ EXCEPT !.pc = "relay"]]
    /\ UNCHANGED <<room, table, channels, chan, punches>>

\* Mutant: no second look at the channels.
SendRelay_NoCheck(h) ==
    /\ At(h, "relay")
    /\ Install(hs[h].info.id, Relay(hs[h].info.vip))
    /\ Finish(h)
    /\ UNCHANGED <<room, table, punches>>

\* A relay otherwise, unless there is a channel by now.
SendRelay(h) ==
    /\ At(h, "relay")
    /\ LET i == hs[h].info
       IN  IF channels[i.id] # None THEN UNCHANGED <<channels, chan>>
           ELSE Install(i.id, Relay(i.vip))
    /\ Finish(h)
    /\ UNCHANGED <<room, table, punches>>

-----------------------------------------------------------------------------
(* punchOne                                                                *)

\* An attempt for an address that is already waited for fails at once.
Register(t, a) ==
    /\ att[t][a] = "start"
    /\ IF pending[a] # None
       THEN att' = [att EXCEPT ![t][a] = "dup"] /\ UNCHANGED pending
       ELSE att' = [att EXCEPT ![t][a] = "wait"] /\ pending' = [pending EXCEPT ![a] = t]
    /\ UNCHANGED <<room, table, channels, chan, hs, tk>>

\* The notification is closed.
Succeed(t, a) ==
    /\ att[t][a] \in {"told", "woken"}
    /\ att' = [att EXCEPT ![t][a] = "won"]
    /\ UNCHANGED <<room, table, channels, chan, hs, tk, pending>>

\* Mutant: no timeout, only the other attempt's success ends the wait.
GiveUp_NoTimeout(t, a) ==
    /\ att[t][a] \in {"wait", "told", "woken"} /\ tk[t].pc \in {"won", "wrap"}
    /\ att' = [att EXCEPT ![t][a] = "failed"]
    /\ UNCHANGED <<room, table, channels, chan, hs, tk, pending>>

\* The timeout, or the context cancelled by another attempt's success.
GiveUp(t, a) ==
    /\ att[t][a] \in {"wait", "told", "woken"}
    /\ att' = [att EXCEPT ![t][a] = "failed"]
    /\ UNCHANGED <<room, table, channels, chan, hs, tk, pending>>

\* Mutant: no deferred delete.
Cleanup_NoDelete(t, a) ==
    /\ att[t][a] \in {"won", "failed"}
    /\ att' = [att EXCEPT ![t][a] = IF @ = "won" THEN "ended" ELSE "lost"]
    /\ tk' = IF att[t][a] = "won" /\ tk[t].win = None
             THEN [tk EXCEPT ![t].win = a, ![t].pc = IF @ = "select" THEN "won" ELSE @]
             ELSE tk
    /\ UNCHANGED <<room, table, channels, chan, hs, pending>>

\* The deferred delete; a success then goes to successCh, where it wakes the
\* select of punchPeer if that is reached.
Cleanup(t, a) ==
    /\ att[t][a] \in {"won", "failed"}
    /\ pending' = [pending EXCEPT ![a] = None]
    /\ att' = [att EXCEPT ![t][a] = IF @ = "won" THEN "ended" ELSE "lost"]
    /\ tk' = IF att[t][a] = "won" /\ tk[t].win = None
             THEN [tk EXCEPT ![t].win = a, ![t].pc = IF @ = "select" THEN "won" ELSE @]
             ELSE tk
    /\ UNCHANGED <<room, table, channels, chan, hs>>

-----------------------------------------------------------------------------
(* punchPeer                                                               *)

TaskStep == UNCHANGED <<room, table, pending, hs>>

\* The select is reached: a success, the end of all attempts or that of the
\* context may already be there, and of the ready cases any may be taken.
Select(t) ==
    /\ tk[t].pc = "start"
    /\ \/ room = "cancelled" /\ tk' = [tk EXCEPT ![t].pc = "wrap"]
       \/ tk[t].win # None /\ tk' = [tk EXCEPT ![t].pc = "won"]
       \/ AllEnded(t) /\ tk' = [tk EXCEPT ![t].pc = "lost"]
       \/ /\ tk[t].win = None /\ ~AllEnded(t) /\ room # "cancelled"
          /\ tk' = [tk EXCEPT ![t].pc = "select"]
    /\ UNCHANGED <<channels, chan, att>> /\ TaskStep

\* Mutant: the end of all attempts closes successCh and is taken for a success.
AllFailed_AsWin(t) ==
    /\ tk[t].pc = "select" /\ AllEnded(t)
    /\ tk' = [tk EXCEPT ![t].pc = "won"]
    /\ UNCHANGED <<channels, chan, att>> /\ TaskStep

\* Every attempt has failed.
AllFailed(t) ==
    /\ tk[t].pc = "select" /\ AllEnded(t)
    /\ tk' = [tk EXCEPT ![t].pc = "lost"]
    /\ UNCHANGED <<channels, chan, att>> /\ TaskStep

\* The P2P channel to the address that answered first.
Connect(t) ==
    /\ tk[t].pc = "won"
    /\ Install(tk[t].info.id, P2P(tk[t].win, tk[t].info.vip))
    /\ tk' = [tk EXCEPT ![t].pc = "wrap"]
    /\ UNCHANGED att /\ TaskStep

\* Mutant: the P2P channel is not looked for.
Fallback_NoCheck(t) ==
    /\ tk[t].pc = "lost"
    /\ Install(tk[t].info.id, Relay(tk[t].info.vip))
    /\ tk' = [tk EXCEPT ![t].pc = "wrap"]
    /\ UNCHANGED att /\ TaskStep

\* Mutant: gives up without a relay.
Fallback_None(t) ==
    /\ tk[t].pc = "lost"
    /\ tk' = [tk EXCEPT ![t].pc = "wrap"]
    /\ UNCHANGED <<channels, chan, att>> /\ TaskStep

\* The relay, unless a P2P channel is there by now.
Fallback(t) ==
    /\ tk[t].pc = "lost"
    /\ IF IsP2P(tk[t].info.id) THEN UNCHANGED <<channels, chan>>
       ELSE Install(tk[t].info.id, Relay(tk[t].info.vip))
    /\ tk' = [tk EXCEPT ![t].pc = "wrap"]
    /\ UNCHANGED att /\ TaskStep

\* Mutant: does not wait for the attempts.
Return_NoWait(t) ==
    /\ tk[t].pc = "wrap"
    /\ tk' = [tk EXCEPT ![t] = TaskIdle]
    /\ UNCHANGED <<channels, chan, att>> /\ TaskStep

\* punchPeer returns when all its attempts have; one whose context ended, or which
\* fell back, does not wait for them, and they end by themselves.
Return(t) ==
    /\ tk[t].pc = "wrap" /\ AllEnded(t)
    /\ tk' = [tk EXCEPT ![t] = TaskIdle]
    /\ att' = [att EXCEPT ![t] = [a \in Addrs |-> "off"]]
    /\ UNCHANGED <<channels, chan>> /\ TaskStep

-----------------------------------------------------------------------------
User ==
    \/ JoinRoom \/ LeavePunches \/ LeaveChannels \/ LeaveReset \/ Rejoin
    \/ CancelPunches \/ RenewContext

Arrival(h) ==
    \/ \E S \in SUBSET Infos : RoomStatus(h, S)
    \/ \E i \in Infos : PeerAddress(h, i) \/ PeerLeave(h, i) \/ Send(h, i.vip)
    \/ \E a \in Addrs : Punch(h, a)

Handle(h) ==
    \/ StatusSelf(h) \/ StatusPeer(h) \/ StatusSpawn(h)
    \/ AddressSpawn(h) \/ LeaveDrop(h) \/ PassiveInstall(h)
    \/ SendLookup(h) \/ SendRelay(h)

Attempt(t, a) == Register(t, a) \/ Succeed(t, a) \/ GiveUp(t, a) \/ Cleanup(t, a)

Task(t) == Select(t) \/ AllFailed(t) \/ Connect(t) \/ Fallback(t) \/ Return(t)

Next ==
    \/ User
    \/ \E h \in Handlers : Arrival(h) \/ Handle(h)
    \/ \E a \in Addrs : Reply(a)
    \/ \E t \in Tasks : Task(t) \/ \E a \in Addrs : Attempt(t, a)

Spec == Init /\ [][Next]_vars

\* A started goroutine keeps running, the 15 s timeout comes, and a call of
\* LeaveRoom goes through.
Fairness ==
    /\ WF_vars(LeaveChannels) /\ WF_vars(LeaveReset)
    /\ \A h \in Handlers : WF_vars(Handle(h))
    /\ \A t \in Tasks : WF_vars(Task(t)) /\ \A a \in Addrs : WF_vars(Attempt(t, a))

FairSpec == Spec /\ Fairness
-----------------------------------------------------------------------------
(* What holds                                                              *)

HandlerRec == [pc: {"idle", "status", "address", "leave", "passive", "send", "relay"},
               todo: SUBSET Infos, all: SUBSET Infos, me: BOOLEAN,
               info: Infos \cup {None}, addr: Addrs \cup {None}]
TaskRec == [pc: {"idle", "start", "select", "won", "lost", "wrap"},
            info: Infos \cup {None}, win: Addrs \cup {None}]
AttStates == AttEnded \cup {"start", "wait", "told", "woken", "won", "failed"}

TypeOK ==
    /\ room \in {"out", "in", "close", "reset", "left", "cancelled"}
    /\ self \in BOOLEAN
    /\ peers \in [Peers -> Infos \cup {None}]
    /\ channels \in [Peers -> Chans \cup {None}]
    /\ chan \in [Chans -> ChanRec \cup {None}]
    /\ pending \in [Addrs -> Tasks \cup {None}]
    /\ hs \in [Handlers -> HandlerRec]
    /\ tk \in [Tasks -> TaskRec]
    /\ att \in [Tasks -> [Addrs -> AttStates]]

\* Every open channel, with its ping goroutine, is the one channel of one peer:
\* whichever of the five writers of Client.channels replaces another's entry,
\* none leaves a channel open that LeaveRoom and handlePeerLeave cannot find.
ChannelsOwned ==
    /\ \A c \in Chans : chan[c] # None => \E p \in Peers : channels[p] = c
    /\ \A p, q \in Peers : channels[p] # None /\ channels[p] = channels[q] => p = q
    /\ \A p \in Peers : channels[p] # None => chan[channels[p]] # None

\* A P2P channel gives way to another P2P channel or to none: no fallback and
\* no early packet puts a relay in its place, whatever it read before.
NoDowngrade ==
    [][\A p \in Peers : IsP2P(p) /\ channels'[p] # None => chan'[channels'[p]].type = "p2p"]_vars

\* An entry of pendingPunches belongs to an attempt that still waits for it: no
\* address stays blocked for the punches to come, as it would if an attempt
\* could end and leave its entry behind.
NoStalePending ==
    \A a \in Addrs : pending[a] # None => att[pending[a]][a] \in {"wait", "failed"}

\* The links that lead to p: to the virtual IP of a record of p, by the relay or
\* to an endpoint of the same record.
Routes ==
    [p \in Peers |-> {Relay(i.vip) : i \in {i \in Infos : i.id = p}} \cup
                     UNION {{P2P(a, i.vip) : a \in i.addrs} : i \in {i \in Infos : i.id = p}}]

\* What the channels promise, as PeerLinks states it.
LinkTo == [p \in Peers |-> IF channels[p] = None THEN None ELSE chan[channels[p]]]
OpenLinks == {chan[c] : c \in Chans} \ {None}
Links == INSTANCE PeerLinks WITH link <- LinkTo, open <- OpenLinks

\* Whichever of its writers replaces, drops or keeps an entry of Client.channels,
\* with what it read before: a peer's packets go to an endpoint and a virtual IP
\* the server gave in one record of that peer (createPassiveP2P, punchPeer).
LinksImplemented == Links!Spec

\* What the goroutines have in hand at each point.
LocalsOK ==
    /\ \A h \in Handlers :
          hs[h].pc \in {"address", "leave", "passive", "send", "relay"} => hs[h].info \in Infos
    /\ \A h \in Handlers : hs[h].pc = "passive" => hs[h].addr \in Addrs
    /\ \A t \in Tasks : tk[t].pc # "idle" => tk[t].info \in Infos
    /\ \A t \in Tasks : tk[t].pc = "won" => tk[t].win \in Addrs

\* A handler's punches start when it is done, and no attempt survives its punch.
GoroutinesOK ==
    /\ \A h \in Handlers, p \in Peers : hs[h].pc # "idle" => tk[<<h, p>>].pc = "idle"
    /\ \A t \in Tasks, a \in Addrs : tk[t].pc = "idle" => att[t][a] = "off"

\* A list names a peer once, a record is kept under its peer, and an endpoint with
\* the record it is of.
RecordsOK ==
    /\ \A h \in Handlers : hs[h].pc = "status" =>
          \A i, j \in hs[h].all : i.id = j.id => i = j
    /\ \A p \in Peers : peers[p] # None => peers[p].id = p
    /\ \A h \in Handlers : hs[h].pc = "passive" => hs[h].addr \in hs[h].info.addrs
    /\ \A t \in Tasks, a \in Addrs : att[t][a] # "off" => a \in tk[t].info.addrs
    /\ \A t \in Tasks : tk[t].win # None => tk[t].win \in tk[t].info.addrs

\* The inductive invariant: types, goroutines that end in order (punchPeer waits
\* for its attempts), owned channels, live notifications, records that are whole.
ClientInv ==
    /\ TypeOK /\ LocalsOK /\ GoroutinesOK /\ RecordsOK /\ ChannelsOwned /\ NoStalePending

\* Every punchPeer returns, with all its attempts, whoever answers or leaves.
PunchEnds == \A t \in Tasks : []<>(tk[t].pc = "idle")

\* A peer with an endpoint gets a channel, P2P or relay, or is forgotten.
PeerGetsChannel ==
    \A p \in Peers :
        []<>(peers[p] # None /\ peers[p].addrs # {} => channels[p] # None)

-----------------------------------------------------------------------------
(* What the comments of the code say                                       *)

\* client.go:327: LeaveRoom closes every channel, so that no ping goroutine of
\* the room's P2P channels is left.
LeftRoomQuiet ==
    room = "left" /\ (\A h \in Handlers : hs[h] = Idle) /\ (\A t \in Tasks : tk[t] = TaskIdle)
        => \A c \in Chans : chan[c] # None => chan[c].type # "p2p"
=============================================================================
