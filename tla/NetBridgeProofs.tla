-------------------------- MODULE NetBridgeProofs --------------------------
(* Theorems about NetBridge, for every number of clients, sockets and        *)
(* packets on their way: the composition implements RoomServer, so that what *)
(* is proved of the server holds behind this network, and what the clients   *)
(* know of each other when all is delivered.                                 *)
EXTENDS NetBridge, RoomServerProofs

-----------------------------------------------------------------------------
(* The server behind the network                                             *)

LEMMA NetRequests ==
    ASSUME NEW c \in PeerIDs
    PROVE  /\ \A a \in Addrs : AddrOwner[a] = c =>
                 [kind |-> "JoinRoom", room |-> Lobby, id |-> c, from |-> a] \in Requests
           /\ [kind |-> "PeerLeave", room |-> Lobby, id |-> c] \in Requests
           /\ [kind |-> "PeerStatus", room |-> Lobby, id |-> c, voice |-> TRUE] \in Requests
    BY LobbyAssumption, NetKindsAssumption DEF Requests, NetKinds

LEMMA UpInit == NetInit => up \subseteq Requests
    BY DEF NetInit

\* Clients send what the server receives.
LEMMA UpNext ==
    ASSUME up \subseteq Requests, [NetNext]_allvars
    PROVE  (up \subseteq Requests)'
<1>1. ASSUME NEW c \in PeerIDs, NEW a \in Addrs, Enter(c, a)  PROVE (up \subseteq Requests)'
    BY <1>1, NetRequests DEF Enter
<1>2. ASSUME NEW c \in PeerIDs, Disconnect(c) \/ SendPeerStatus(c)
      PROVE  (up \subseteq Requests)'
    <2>1. CASE Disconnect(c)
        BY <2>1, NetRequests DEF Disconnect
    <2>2. CASE SendPeerStatus(c)
        BY <2>2, NetRequests DEF SendPeerStatus
    <2> QED BY <1>2, <2>1, <2>2
<1>3. ASSUME NEW h \in Handlers, ServerStep(h)  PROVE (up \subseteq Requests)'
    BY <1>3 DEF ServerStep, Compute, Send, net
<1>4. ASSUME NEW m \in up, Reject(m) \/ \E h \in Handlers : Accept(h, m)
      PROVE  (up \subseteq Requests)'
    BY <1>4 DEF Reject, Accept
<1>5. ASSUME NEW c \in PeerIDs, NEW d \in down, Handle(c, d)  PROVE (up \subseteq Requests)'
    BY <1>5 DEF Handle, Takes, handleRoomStatus, handlePeerAddress, handlePeerLeave,
                handlePeerStatus
<1>6. CASE UNCHANGED allvars
    BY <1>6 DEF allvars, net
<1> QED BY <1>1, <1>2, <1>3, <1>4, <1>5, <1>6 DEF NetNext

\* Every step of the composition is one of the server or leaves it alone.
LEMMA ServerSteps ==
    ASSUME up \subseteq Requests, [NetNext]_allvars
    PROVE  [Next]_vars
<1>1. CASE UNCHANGED server
    BY <1>1 DEF server, vars
<1>2. ASSUME NEW h \in Handlers, NEW m \in up, Accept(h, m)  PROVE Next
    BY <1>2 DEF Accept, Next
<1>3. ASSUME NEW h \in Handlers, ServerStep(h)  PROVE Next
    BY <1>3 DEF ServerStep, Compute, Send, Next, Proceed
<1> QED
    BY <1>1, <1>2, <1>3
    DEF NetNext, allvars, Reject, Enter, Disconnect, SendPeerStatus, Handle, Takes,
        handleRoomStatus, handlePeerAddress, handlePeerLeave, handlePeerStatus

\* The server is used as RoomServer says: what its theorems state holds of it
\* behind this network too.
THEOREM NetImplementsServer == NetSpec => Spec
<1>1. NetInit => Init
    BY DEF NetInit
<1>2. up \subseteq Requests /\ [NetNext]_allvars => (up \subseteq Requests)'
    BY UpNext
<1>3. up \subseteq Requests /\ [NetNext]_allvars => [Next]_vars
    BY ServerSteps
<1> QED BY <1>1, <1>2, <1>3, UpInit, PTL DEF NetSpec, Spec

\* The server's invariant holds of the composition.
LEMMA NetServerInv == NetSpec => []IndInv
    BY NetImplementsServer, InvariantCorrect, PTL

-----------------------------------------------------------------------------
(* What each step of the server does, as far as the clients can tell         *)

Unmoved(h) == \A g \in Handlers : g # h => hs'[g] = hs[g]

\* The Peer objects there are keep their ids, addresses and VIPs.
PeersKept ==
    \A x \in PeerObjs :
        /\ peer[x] = None => peer'[x] = None
        /\ peer[x] # None => /\ peer'[x].id = peer[x].id /\ peer'[x].addr = peer[x].addr
                             /\ peer'[x].vip = peer[x].vip

\* h starts on the packet m, for a join with a new Peer object.
Accepts(h, m) ==
    /\ m \in up /\ m \in Requests /\ up' = up \ {m} /\ UNCHANGED <<down, clients, peers>>
    /\ Unmoved(h) /\ hs[h].pc = "idle"
    /\ hs'[h].req = m /\ hs'[h].snap = {} /\ hs'[h].pc \in {"join", "leave", "getpeer"}
    /\ \A x \in PeerObjs : \/ peer'[x] = peer[x]
                           \/ /\ peer[x] = None /\ m.kind = "JoinRoom"
                              /\ peer'[x].id = m.id /\ peer'[x].addr = m.from

\* A join registers its client, or finds it registered.
Registers(h) ==
    /\ UNCHANGED <<net, clients>> /\ Unmoved(h)
    /\ hs[h].pc = "join" /\ Req(h).kind = "JoinRoom" /\ hs'[h].pc = "snapshot"
    /\ hs'[h].req = hs[h].req /\ hs'[h].room = hs[h].room /\ hs'[h].snap = hs[h].snap
    /\ hs[h].room \in RoomObjs /\ Req(h).id \in PeerIDs
    /\ peers'[hs[h].room][Req(h).id] # None
    /\ peer'[peers'[hs[h].room][Req(h).id]].vip = hs'[h].vip /\ hs'[h].vip \in VIPs
    /\ \A x \in PeerObjs :
          /\ peer[x] = None => peer'[x] = None
          /\ peer[x] # None =>
                /\ peer'[x].id = peer[x].id
                /\ peer'[x].vip = peer[x].vip \/ peer'[x].vip \in VIPs
                /\ \/ peer'[x].addr = peer[x].addr
                   \/ peer[x].id = Req(h).id /\ peer'[x].addr = Req(h).from

\* A handler takes the list of the members of its room.
TakesList(h) ==
    /\ UNCHANGED <<net, clients, peers, peer>> /\ Unmoved(h)
    /\ hs[h].pc = "snapshot" /\ hs'[h].pc = "send" /\ hs[h].room \in RoomObjs
    /\ hs'[h].req = hs[h].req /\ hs'[h].room = hs[h].room /\ hs'[h].vip = hs[h].vip
    /\ hs'[h].snap = Members(hs[h].room)

\* A join sends its list, and tells those on it.
Announces(h) ==
    /\ UNCHANGED <<up, clients, peers, peer>> /\ Unmoved(h)
    /\ hs[h].pc = "send" /\ Req(h).kind = "JoinRoom" /\ hs'[h] = Idle
    /\ down' = down \cup Deliverable(JoinPackets(h), sock)

\* Any other step: what it sends is what a client sent.
Serves(h) ==
    /\ UNCHANGED <<up, clients>> /\ Unmoved(h) /\ PeersKept
    /\ hs[h].pc # "idle" /\ Req(h) \in Requests /\ Req(h).kind \in {"PeerLeave", "PeerStatus"}
    /\ \/ hs'[h] = Idle
       \/ hs'[h].req = hs[h].req /\ hs'[h].snap = hs[h].snap
    /\ \/ UNCHANGED down
       \/ hs[h].pc = "send" /\ down' = down \cup Deliverable(BroadcastPackets(h), sock)

LEMMA AcceptEffect ==
    ASSUME TypeInv, RequestsOK, NEW h \in Handlers, NEW m \in up, Accept(h, m)
    PROVE  Accepts(h, m)
<1>1. /\ m \in Requests /\ m.kind \in NetKinds /\ m \in up
      /\ up' = up \ {m} /\ UNCHANGED <<down, clients>>
    BY DEF RequestsOK, Accept
<1>2. hs \in [Handlers -> HandlerRec] /\ peer \in [PeerObjs -> PeerRec \cup {None}]
    BY DEF TypeInv, TypeOK
<1>3. CASE JoinGetRoom(h, m)
    <2>1. PICK o \in RoomObjs, p \in PeerObjs :
            /\ peer[p] = None
            /\ peer' = [peer EXCEPT ![p] = [id |-> m.id, addr |-> m.from, vip |-> 0,
                                            voice |-> FALSE, stale |-> FALSE]]
            /\ hs' = [hs EXCEPT ![h] = [Idle EXCEPT !.pc = "join", !.req = m,
                                                    !.room = o, !.peer = p]]
        BY <1>3 DEF JoinGetRoom
    <2>2. /\ Unmoved(h) /\ hs'[h].req = m /\ hs'[h].snap = {} /\ hs'[h].pc = "join"
        BY <1>2, <2>1 DEF Idle, Unmoved
    <2>3. \A x \in PeerObjs : \/ peer'[x] = peer[x]
                              \/ peer[x] = None /\ peer'[x].id = m.id /\ peer'[x].addr = m.from
        BY <1>2, <2>1
    <2> QED BY <1>1, <1>3, <2>2, <2>3 DEF Accepts, JoinGetRoom, At
<1>4. CASE GetRoom(h, m)
    <2>1. m.kind \in {"PeerLeave", "PeerStatus"}
        BY <1>1, <1>4 DEF GetRoom, AfterGet, NetKinds
    <2>2. AfterGet[m.kind] \in {"leave", "getpeer"}
        BY <2>1 DEF AfterGet
    <2>3. /\ Unmoved(h) /\ hs'[h].req = m /\ hs'[h].snap = {} /\ hs'[h].pc = AfterGet[m.kind]
        BY <1>2, <1>4 DEF GetRoom, Idle, Unmoved
    <2> QED BY <1>1, <1>4, <2>2, <2>3 DEF Accepts, GetRoom, At
<1>5. ~CompactLookup(h, m)
    BY <1>1 DEF CompactLookup, NetKinds
<1> QED BY <1>3, <1>4, <1>5 DEF Accept, Receive

LEMMA RegisterEffect ==
    ASSUME HeapInv, NEW h \in Handlers, JoinKnown(h) \/ JoinNew(h), UNCHANGED <<net, clients>>
    PROVE  Registers(h)
<1>0. TypeInv /\ hs \in [Handlers -> HandlerRec] /\ peer \in [PeerObjs -> PeerRec \cup {None}]
    BY DEF HeapInv, TypeInv, TypeOK
<1>1. /\ hs[h].pc = "join" /\ Req(h) \in Requests /\ Req(h).kind = "JoinRoom"
      /\ hs[h].room \in RoomObjs /\ hs[h] \in HandlerRec
    BY <1>0, TypeHandler DEF JoinKnown, JoinNew, At, KindsAt
<1>2. Req(h).id \in PeerIDs
    BY <1>1, RequestFields
<1>3. CASE JoinKnown(h)
    <2>1. PICK m : m = peers[hs[h].room][Req(h).id]
        OBVIOUS
    <2>2. /\ m # None /\ m \in PeerObjs /\ peer[m] \in PeerRec
          /\ peer[m].id = Req(h).id /\ peer[m].vip \in VIPs
        BY <1>0, <1>1, <1>2, <1>3, <2>1 DEF JoinKnown, TypeInv, MembersOK, Allocated
    <2>3. /\ peer' = [peer EXCEPT ![m].addr = Req(h).from, ![m].stale = FALSE]
          /\ hs' = [hs EXCEPT ![h].pc = "snapshot", ![h].vip = peer[m].vip]
          /\ UNCHANGED peers
        BY <1>3, <2>1 DEF JoinKnown
    <2>4. /\ Unmoved(h) /\ hs'[h].pc = "snapshot" /\ hs'[h].vip = peer[m].vip
          /\ hs'[h].req = hs[h].req /\ hs'[h].room = hs[h].room /\ hs'[h].snap = hs[h].snap
        BY <1>0, <1>1, <2>3 DEF Unmoved, HandlerRec
    <2>5. \A x \in PeerObjs : x # m => peer'[x] = peer[x]
        BY <1>0, <2>3
    <2>6. peer'[m].id = peer[m].id /\ peer'[m].vip = peer[m].vip /\ peer'[m].addr = Req(h).from
        BY <1>0, <2>2, <2>3 DEF PeerRec
    <2>7. peer[m] # None
        BY <2>2, NoneAssumption
    <2> QED BY <1>1, <1>2, <2>1, <2>2, <2>3, <2>4, <2>5, <2>6, <2>7 DEF Registers
<1>4. CASE JoinNew(h)
    <2>1. PICK o, p, m, v : Admits(h, o, p, m, v)
        BY <1>4, JoinNewEffect
    <2>2. /\ Unmoved(h) /\ hs'[h].pc = "snapshot" /\ hs'[h].vip = v
          /\ hs'[h].req = hs[h].req /\ hs'[h].room = hs[h].room /\ hs'[h].snap = hs[h].snap
        BY <1>1, <2>1 DEF Admits, Unmoved, HandlerRec
    <2>3. peer[m] \in PeerRec /\ peer[m] # None
        BY <2>1, NoneAssumption DEF Admits, Allocated
    <2>4. peer'[m].addr = peer[m].addr
        BY <2>1, <2>3 DEF Admits, PeerRec
    <2>5. /\ peers'[o][p] = m /\ m # None /\ peer'[m].vip = v /\ v \in VIPs
          /\ o = hs[h].room /\ p = Req(h).id
        BY <2>1 DEF Admits
    <2>6. ASSUME NEW x \in PeerObjs
          PROVE  /\ peer[x] = None => peer'[x] = None
                 /\ peer'[x].id = peer[x].id /\ peer'[x].addr = peer[x].addr
                 /\ peer'[x].vip = peer[x].vip \/ peer'[x].vip \in VIPs
        BY <2>1, <2>3, <2>4, <2>5 DEF Admits
    <2> QED BY <1>1, <1>2, <2>2, <2>5, <2>6 DEF Registers
<1> QED BY <1>3, <1>4

LEMMA ListEffect ==
    ASSUME TypeInv, NEW h \in Handlers, Snapshot(h), UNCHANGED <<net, clients>>
    PROVE  TakesList(h)
<1>1. hs \in [Handlers -> HandlerRec] /\ hs[h] \in HandlerRec /\ hs[h].room \in RoomObjs
    BY TypeHandler DEF TypeInv, TypeOK, Snapshot, At
<1>2. /\ Unmoved(h) /\ hs'[h].pc = "send" /\ hs'[h].snap = Members(hs[h].room)
      /\ hs'[h].req = hs[h].req /\ hs'[h].room = hs[h].room /\ hs'[h].vip = hs[h].vip
    BY <1>1 DEF Snapshot, Unmoved, HandlerRec
<1> QED BY <1>1, <1>2 DEF TakesList, Snapshot, At

LEMMA AnnounceEffect ==
    ASSUME TypeInv, NEW h \in Handlers, JoinAnnounce(h),
           down' = down \cup Deliverable(JoinPackets(h), sock), UNCHANGED <<up, clients>>
    PROVE  Announces(h)
<1>1. hs'[h] = Idle /\ Unmoved(h)
    BY DEF JoinAnnounce, Done, TypeInv, TypeOK, Unmoved
<1> QED BY <1>1 DEF Announces, JoinAnnounce, At, Is

LEMMA ServeEffect ==
    ASSUME TypeInv, RequestsOK, NEW h \in Handlers, UNCHANGED <<up, clients>>,
           \/ /\ GetPeer(h) \/ SetVoiceStatus(h) \/ Leave(h) \/ LeaveCheckEmpty(h) \/ LeaveReclaim(h)
              /\ UNCHANGED down
           \/ Broadcast(h) /\ down' = down \cup Deliverable(BroadcastPackets(h), sock)
    PROVE  Serves(h)
<1>1. ~At(h, "idle") /\ Req(h) \in Requests /\ Req(h).kind \in NetKinds /\ ~Is(h, "JoinRoom")
    <2>1. ~At(h, "idle")
        BY DEF GetPeer, SetVoiceStatus, Leave, LeaveCheckEmpty, LeaveReclaim, Broadcast, At
    <2>2. Req(h) \in Requests /\ Req(h).kind \in KindsAt(hs[h].pc) /\ Req(h).kind \in NetKinds
        BY <2>1, TypeHandler DEF RequestsOK
    <2> QED
        BY <2>1, <2>2 DEF GetPeer, SetVoiceStatus, Leave, LeaveCheckEmpty, LeaveReclaim,
                          Broadcast, At, Is, KindsAt
<1>2. Req(h).kind \in {"PeerLeave", "PeerStatus"} /\ hs[h].pc # "idle"
    BY <1>1 DEF NetKinds, Is, At
<1>3. hs \in [Handlers -> HandlerRec] /\ hs[h] \in HandlerRec
    BY DEF TypeInv, TypeOK
<1>4. /\ Unmoved(h)
      /\ hs'[h] = Idle \/ (hs'[h].req = hs[h].req /\ hs'[h].snap = hs[h].snap)
    <2>1. CASE Done(h)
        BY <1>3, <2>1 DEF Done, Unmoved
    <2>2. ASSUME NEW pc, Goto(h, pc)  PROVE <1>4
        BY <1>3, <2>2 DEF Goto, Unmoved, HandlerRec
    <2>3. ASSUME NEW pc, NEW m, hs' = [hs EXCEPT ![h].peer = m, ![h].pc = pc]  PROVE <1>4
        BY <1>3, <2>3 DEF Unmoved, HandlerRec
    <2>4. CASE GetPeer(h)
        BY <2>1, <2>3, <2>4 DEF GetPeer
    <2> QED BY <2>1, <2>2, <2>4 DEF SetVoiceStatus, Leave, LeaveCheckEmpty, LeaveReclaim, Broadcast
<1>5. PeersKept
    <2>1. CASE SetVoiceStatus(h)
        <3>1. PICK m : m = hs[h].peer /\ peer' = [peer EXCEPT ![m].voice = Req(h).voice]
            BY <2>1 DEF SetVoiceStatus
        <3>2. Allocated(m)
            BY <1>1, <2>1, <3>1, TypeHandler DEF SetVoiceStatus, At, HoldsPeer, PointersOK
        <3>3. \A x \in PeerObjs : x # m => peer'[x] = peer[x]
            BY <3>1 DEF TypeInv, TypeOK
        <3>4. /\ peer[m] # None
              /\ peer'[m].id = peer[m].id /\ peer'[m].addr = peer[m].addr
              /\ peer'[m].vip = peer[m].vip
            BY <3>1, <3>2, NoneAssumption DEF TypeInv, TypeOK, Allocated, PeerRec
        <3> QED BY <3>3, <3>4 DEF PeersKept
    <2>2. CASE UNCHANGED peer
        BY <2>2 DEF PeersKept
    <2> QED BY <2>1, <2>2 DEF GetPeer, Leave, LeaveCheckEmpty, LeaveReclaim, Broadcast
<1> QED BY <1>1, <1>2, <1>4, <1>5 DEF Serves, Broadcast, At

\* Every step of the server is one of these.
LEMMA ServerEffect ==
    ASSUME HeapInv, RequestsOK, NEW h \in Handlers, ServerStep(h)
    PROVE  Registers(h) \/ TakesList(h) \/ Announces(h) \/ Serves(h)
<1>0. TypeInv
    BY DEF HeapInv
<1>1. CASE Compute(h)
    <2>1. UNCHANGED <<net, clients>> /\ UNCHANGED <<up, clients>> /\ UNCHANGED down
        BY <1>1 DEF Compute, net
    <2> QED BY <1>0, <1>1, <2>1, RegisterEffect, ListEffect, ServeEffect DEF Compute
<1>2. CASE Send(h)
    BY <1>0, <1>2, AnnounceEffect, ServeEffect DEF Send
<1> QED BY <1>1, <1>2 DEF ServerStep

-----------------------------------------------------------------------------
(* Registrations last                                                        *)

\* A step is one of the server's or leaves the server alone.
LEMMA NetStep ==
    ASSUME [NetNext]_allvars
    PROVE  \/ \E h \in Handlers : ServerStep(h)
           \/ \E h \in Handlers, m \in up : Accept(h, m)
           \/ UNCHANGED server
    BY DEF NetNext, allvars, Reject, Enter, Disconnect, SendPeerStatus, Handle, Takes,
           handleRoomStatus, handlePeerAddress, handlePeerLeave, handlePeerStatus

LEMMA LeftGrows ==
    ASSUME [NetNext]_allvars
    PROVE  left \subseteq left'
<1>1. ASSUME NEW c \in PeerIDs, Disconnect(c)  PROVE left \subseteq left'
    BY <1>1 DEF Disconnect
<1>2. ASSUME NEW h \in Handlers, ServerStep(h)  PROVE UNCHANGED left
    BY <1>2 DEF ServerStep, Compute, Send, clients
<1> QED
    BY <1>1, <1>2
    DEF NetNext, allvars, clients, Reject, Accept, Enter, SendPeerStatus, Handle, Takes,
        handleRoomStatus, handlePeerAddress, handlePeerLeave, handlePeerStatus

\* A client that has not left stays registered, with its VIP.
LEMMA StaysRegistered ==
    ASSUME IndInv, up \subseteq Requests, RequestsOK, LeaversLeft, [NetNext]_allvars,
           NEW c \in PeerIDs, c \notin left', NEW o \in RoomObjs, peers[o][c] # None
    PROVE  peers'[o][c] = peers[o][c] /\ peer'[peers[o][c]].vip = peer[peers[o][c]].vip
<1>0. VIPInv /\ HeapInv /\ TypeInv /\ [Next]_vars /\ Allocated(peers[o][c])
    BY ServerSteps DEF IndInv, VIPInv, HeapInv, TypeInv, MembersOK
<1>1. CASE \E h \in Handlers : JoinNew(h)
    <2>1. PICK h \in Handlers : JoinNew(h)
        BY <1>1
    <2>2. PICK x, p, m, v : Admits(h, x, p, m, v)
        BY <1>0, <2>1, JoinNewEffect
    <2>3. peers'[o][c] = peers[o][c] /\ peers[o][c] # m
        BY <2>2 DEF Admits
    <2> QED BY <1>0, <2>2, <2>3 DEF Admits, Allocated
<1>2. CASE ~\E h \in Handlers : JoinNew(h)
    <2>1. RegistryKept
        BY <1>0, <1>2, RegistryStep
    <2>2. peer'[peers[o][c]].vip = peer[peers[o][c]].vip /\ peers'[o][c] \in {peers[o][c], None}
        BY <1>0, <2>1 DEF RegistryKept
    <2>3. ASSUME NEW h \in Handlers, Leave(h)  PROVE peers'[o][c] = peers[o][c]
        <3>1. ~At(h, "idle") /\ Req(h).kind = "PeerLeave"
            BY <1>0, <2>3, TypeHandler DEF Leave, At, KindsAt
        <3>2. Req(h).id \in left /\ left \subseteq left'
            BY <3>1, LeftGrows DEF LeaversLeft, Is
        <3> QED BY <1>0, <2>3, <3>2 DEF Leave, TypeInv, TypeOK
    <2>5. ASSUME NEW h \in Handlers, ServerStep(h)  PROVE UNCHANGED peers \/ Leave(h)
        BY <1>2, <2>5 DEF ServerStep, Compute, Send, JoinKnown, JoinAnnounce, GetPeer,
           SetVoiceStatus, Snapshot, Broadcast, LeaveCheckEmpty, LeaveReclaim
    <2>6. ASSUME NEW h \in Handlers, NEW m \in up, Accept(h, m)  PROVE UNCHANGED peers
        BY <2>6 DEF Accept, Receive, JoinGetRoom, GetRoom, CompactLookup
    <2>7. UNCHANGED server => UNCHANGED peers
        BY DEF server
    <2> QED BY <2>2, <2>3, <2>5, <2>6, <2>7, NetStep
<1> QED BY <1>1, <1>2

\* The VIP of a client stays its VIP.
LEMMA VIPOfKept ==
    ASSUME IndInv, NetInv, [NetNext]_allvars, NEW c, NEW v, VIPOf(c, v)
    PROVE  VIPOf(c, v)'
<1>1. c \in PeerIDs /\ v \in VIPs /\ (c \notin left => v \in RegisteredVIPs(c))
    BY DEF VIPOf
<1>2. ASSUME c \notin left'  PROVE (v \in RegisteredVIPs(c))'
    <2>1. c \notin left
        BY <1>2, LeftGrows
    <2>2. PICK o \in RoomObjs : peers[o][c] # None /\ v = peer[peers[o][c]].vip
        BY <1>1, <2>1 DEF RegisteredVIPs, Home
    <2>3. peers'[o][c] = peers[o][c] /\ peer'[peers[o][c]].vip = v
        BY <1>1, <1>2, <2>2, StaysRegistered DEF NetInv, RequestsOK
    <2> QED BY <2>2, <2>3 DEF RegisteredVIPs, Home
<1> QED BY <1>1, <1>2 DEF VIPOf

-----------------------------------------------------------------------------
(* Where requests, lists and packets come from                               *)

\* Every step of the composition is one of these.
LEMMA NetCases ==
    ASSUME IndInv, NetInv, NetNext
    PROVE  \/ \E h \in Handlers : Registers(h) \/ TakesList(h) \/ Announces(h) \/ Serves(h)
           \/ \E h \in Handlers, m \in up : Accepts(h, m)
           \/ \E c \in PeerIDs, a \in Addrs : Enter(c, a)
           \/ \E c \in PeerIDs : Disconnect(c) \/ SendPeerStatus(c)
           \/ \E m \in up : Reject(m)
           \/ \E c \in PeerIDs, d \in down : Handle(c, d)
<1>1. HeapInv /\ TypeInv /\ RequestsOK
    BY DEF IndInv, VIPInv, HeapInv, NetInv
<1>2. ASSUME NEW h \in Handlers, ServerStep(h)
      PROVE  Registers(h) \/ TakesList(h) \/ Announces(h) \/ Serves(h)
    BY <1>1, <1>2, ServerEffect
<1>3. ASSUME NEW h \in Handlers, NEW m \in up, Accept(h, m)  PROVE Accepts(h, m)
    BY <1>1, <1>3, AcceptEffect
<1> QED BY <1>2, <1>3 DEF NetNext

\* What a step of the clients or of the network leaves to the server.
LEMMA ClientStep ==
    ASSUME \/ \E c \in PeerIDs, a \in Addrs : Enter(c, a)
           \/ \E c \in PeerIDs : Disconnect(c) \/ SendPeerStatus(c)
           \/ \E m \in up : Reject(m)
           \/ \E c \in PeerIDs, d \in down : Handle(c, d)
           \/ UNCHANGED allvars
    PROVE  UNCHANGED <<rooms, made, peers, peer, hs>> /\ down' \subseteq down
    BY DEF Enter, Disconnect, SendPeerStatus, Reject, Handle, Takes, handleRoomStatus,
           handlePeerAddress, handlePeerLeave, handlePeerStatus, allvars, server, net, Deliverable

\* A handler moves by the server's steps only.
LEMMA HandlerMoves ==
    ASSUME IndInv, NetInv, [NetNext]_allvars, NEW h \in Handlers
    PROVE  \/ hs'[h] = hs[h]
           \/ Registers(h) \/ TakesList(h) \/ Announces(h) \/ Serves(h)
           \/ \E m \in up : Accepts(h, m)
<1>1. ASSUME NEW g \in Handlers, g # h, Unmoved(g)  PROVE hs'[h] = hs[h]
    BY <1>1 DEF Unmoved
<1>2. ASSUME NEW g \in Handlers, g # h,
             \/ Registers(g) \/ TakesList(g) \/ Announces(g) \/ Serves(g)
             \/ \E m \in up : Accepts(g, m)
      PROVE  hs'[h] = hs[h]
    BY <1>1, <1>2 DEF Registers, TakesList, Announces, Serves, Accepts
<1>3. CASE UNCHANGED allvars
    BY <1>3 DEF allvars, server
<1> QED BY <1>2, <1>3, NetCases, ClientStep

\* What a handler works on it worked on before, or it has just been sent.
LEMMA ReqOrigin ==
    ASSUME IndInv, NetInv, [NetNext]_allvars, NEW h \in Handlers, hs'[h].pc # "idle"
    PROVE  \/ hs[h].pc # "idle" /\ hs'[h].req = hs[h].req
           \/ \E m \in up : Accepts(h, m) /\ hs'[h].req = m
<1>1. CASE Announces(h) \/ Serves(h) \/ Registers(h) \/ TakesList(h)
    BY <1>1 DEF Announces, Serves, Registers, TakesList, Idle
<1>2. ASSUME NEW m \in up, Accepts(h, m)  PROVE hs'[h].req = m
    BY <1>2 DEF Accepts
<1> QED BY <1>1, <1>2, HandlerMoves

\* What is on its way to the server was so before, or is sent by a client.
LEMMA UpOrigin ==
    ASSUME IndInv, NetInv, [NetNext]_allvars, NEW m \in up', m \notin up
    PROVE  \/ \E c \in PeerIDs, a \in Addrs :
                 Enter(c, a) /\ m = [kind |-> "JoinRoom", room |-> Lobby, id |-> c, from |-> a]
           \/ \E c \in PeerIDs :
                 /\ Disconnect(c)
                 /\ m = [kind |-> "PeerLeave", room |-> Lobby, id |-> c]
           \/ \E c \in PeerIDs :
                 /\ SendPeerStatus(c)
                 /\ m = [kind |-> "PeerStatus", room |-> Lobby, id |-> c, voice |-> TRUE]
<1>1. ASSUME NEW h \in Handlers, Registers(h) \/ TakesList(h) \/ Announces(h) \/ Serves(h)
      PROVE  UNCHANGED up
    BY <1>1 DEF Registers, TakesList, Announces, Serves, net
<1>2. ASSUME NEW h \in Handlers, NEW n \in up, Accepts(h, n)  PROVE up' \subseteq up
    BY <1>2 DEF Accepts
<1>3. ASSUME NEW n \in up, Reject(n)  PROVE up' \subseteq up
    BY <1>3 DEF Reject
<1>4. ASSUME NEW c \in PeerIDs, NEW d \in down, Handle(c, d)  PROVE UNCHANGED up
    BY <1>4 DEF Handle, Takes, handleRoomStatus, handlePeerAddress, handlePeerLeave,
                handlePeerStatus
<1>5. CASE UNCHANGED allvars
    BY <1>5 DEF allvars, net
<1>6. ASSUME NEW c \in PeerIDs, NEW a \in Addrs, Enter(c, a)
      PROVE  m = [kind |-> "JoinRoom", room |-> Lobby, id |-> c, from |-> a]
    BY <1>6 DEF Enter
<1>7. ASSUME NEW c \in PeerIDs, Disconnect(c)
      PROVE  m = [kind |-> "PeerLeave", room |-> Lobby, id |-> c]
    BY <1>7 DEF Disconnect
<1>8. ASSUME NEW c \in PeerIDs, SendPeerStatus(c)
      PROVE  m = [kind |-> "PeerStatus", room |-> Lobby, id |-> c, voice |-> TRUE]
    BY <1>8 DEF SendPeerStatus
<1> QED BY <1>1, <1>2, <1>3, <1>4, <1>5, <1>6, <1>7, <1>8, NetCases

\* A new JoinRoom comes from a client that enters.
LEMMA JoinSent ==
    ASSUME IndInv, NetInv, [NetNext]_allvars, NEW m \in up', m \notin up, m.kind = "JoinRoom"
    PROVE  \E c \in PeerIDs, a \in Addrs :
              Enter(c, a) /\ m = [kind |-> "JoinRoom", room |-> Lobby, id |-> c, from |-> a]
<1>1. ASSUME NEW c, m = [kind |-> "PeerLeave", room |-> Lobby, id |-> c]  PROVE FALSE
    BY <1>1
<1>2. ASSUME NEW c, m = [kind |-> "PeerStatus", room |-> Lobby, id |-> c, voice |-> TRUE]
      PROVE  FALSE
    BY <1>2
<1> QED BY <1>1, <1>2, UpOrigin

\* What is taken from the network is received or given up.
LEMMA UpLost ==
    ASSUME IndInv, NetInv, [NetNext]_allvars, NEW m \in up, m \notin up'
    PROVE  \/ \E h \in Handlers : Accepts(h, m)
           \/ m.kind # "JoinRoom"
<1>1. ASSUME NEW h \in Handlers, Registers(h) \/ TakesList(h) \/ Announces(h) \/ Serves(h)
      PROVE  FALSE
    BY <1>1 DEF Registers, TakesList, Announces, Serves, net
<1>2. ASSUME NEW h \in Handlers, NEW n \in up, Accepts(h, n)  PROVE m = n
    BY <1>2 DEF Accepts
<1>3. ASSUME NEW n \in up, Reject(n)  PROVE m.kind # "JoinRoom"
    BY <1>3 DEF Reject
<1>4. ASSUME NEW c \in PeerIDs, NEW d \in down, Handle(c, d)  PROVE FALSE
    BY <1>4 DEF Handle, Takes, handleRoomStatus, handlePeerAddress, handlePeerLeave,
                handlePeerStatus
<1>5. ASSUME NEW c \in PeerIDs, Disconnect(c) \/ SendPeerStatus(c)  PROVE FALSE
    BY <1>5 DEF Disconnect, SendPeerStatus
<1>6. ASSUME NEW c \in PeerIDs, NEW a \in Addrs, Enter(c, a)  PROVE FALSE
    BY <1>6 DEF Enter
<1>7. CASE UNCHANGED allvars
    BY <1>7 DEF allvars, net
<1> QED BY <1>1, <1>2, <1>3, <1>4, <1>5, <1>6, <1>7, NetCases

LEMMA DownLost ==
    ASSUME IndInv, NetInv, [NetNext]_allvars, NEW x \in down, x \notin down',
           sock'[AddrOwner[x.to]] = x.to
    PROVE  \E c \in PeerIDs : Handle(c, x) /\ x.to = sock[c]
<1>1. ASSUME NEW h \in Handlers, Registers(h) \/ TakesList(h) \/ Announces(h) \/ Serves(h)
      PROVE  FALSE
    BY <1>1 DEF Registers, TakesList, Announces, Serves, net
<1>2. ASSUME NEW h \in Handlers, NEW n \in up, Accepts(h, n)  PROVE FALSE
    BY <1>2 DEF Accepts
<1>3. ASSUME NEW n \in up, Reject(n)  PROVE FALSE
    BY <1>3 DEF Reject
<1>4. ASSUME NEW c \in PeerIDs, NEW d \in down, Handle(c, d)
      PROVE  d = x /\ d.to = sock[c]
    BY <1>4 DEF Handle, Takes, handleRoomStatus, handlePeerAddress, handlePeerLeave,
                handlePeerStatus
<1>5. ASSUME NEW c \in PeerIDs, Disconnect(c) \/ SendPeerStatus(c)  PROVE FALSE
    BY <1>5 DEF Disconnect, SendPeerStatus, Deliverable
<1>6. ASSUME NEW c \in PeerIDs, NEW a \in Addrs, Enter(c, a)  PROVE FALSE
    BY <1>6 DEF Enter, Deliverable
<1>7. CASE UNCHANGED allvars
    BY <1>7 DEF allvars, net
<1> QED BY <1>1, <1>2, <1>3, <1>4, <1>5, <1>6, <1>7, NetCases

\* The requests and who leaves.
LEMMA RequestsNext ==
    ASSUME IndInv, NetInv, [NetNext]_allvars
    PROVE  RequestsOK' /\ LeaversLeft'
<1>0. RequestsOK /\ LeaversLeft /\ left \subseteq left'
    BY LeftGrows DEF NetInv
<1> DEFINE Right(n) == /\ n \in Requests /\ n.kind \in NetKinds /\ n.room = Lobby
                       /\ n.kind = "PeerLeave" => n.id \in left'
<1>1. ASSUME NEW m \in up'  PROVE Right(m)
    <2>1. CASE m \in up
        BY <1>0, <2>1 DEF RequestsOK, LeaversLeft
    <2>2. ASSUME NEW c \in PeerIDs, NEW a \in Addrs, Enter(c, a),
                 m = [kind |-> "JoinRoom", room |-> Lobby, id |-> c, from |-> a]
          PROVE  Right(m)
        <3>1. m \in Requests
            BY <2>2, NetRequests DEF Enter
        <3> QED BY <2>2, <3>1 DEF NetKinds
    <2>3. ASSUME NEW c \in PeerIDs, Disconnect(c),
                 m = [kind |-> "PeerLeave", room |-> Lobby, id |-> c]
          PROVE  Right(m)
        <3>1. m \in Requests /\ c \in left'
            BY <2>3, NetRequests DEF Disconnect
        <3> QED BY <2>3, <3>1 DEF NetKinds
    <2>4. ASSUME NEW c \in PeerIDs, SendPeerStatus(c),
                 m = [kind |-> "PeerStatus", room |-> Lobby, id |-> c, voice |-> TRUE]
          PROVE  Right(m)
        <3>1. m \in Requests
            BY <2>4, NetRequests
        <3> QED BY <2>4, <3>1 DEF NetKinds
    <2> HIDE DEF Right
    <2> QED BY <2>1, <2>2, <2>3, <2>4, UpOrigin
<1>2. ASSUME NEW h \in Handlers, hs'[h].pc # "idle"
      PROVE  /\ hs'[h].req.kind \in NetKinds
             /\ hs'[h].req.kind = "PeerLeave" => hs'[h].req.id \in left'
    <2>1. CASE hs[h].pc # "idle" /\ hs'[h].req = hs[h].req
        BY <1>0, <2>1 DEF RequestsOK, LeaversLeft, At, Is, Req
    <2>2. CASE hs'[h].req \in up
        BY <1>0, <2>2 DEF RequestsOK, LeaversLeft
    <2> QED BY <1>2, <2>1, <2>2, ReqOrigin
<1> QED BY <1>1, <1>2 DEF RequestsOK, LeaversLeft, At, Is, Req

\* A new packet for a client comes from a handler, and its socket is open.
LEMMA DownOrigin ==
    ASSUME IndInv, NetInv, [NetNext]_allvars, NEW x \in down', x \notin down
    PROVE  /\ \E h \in Handlers :
                 \/ Announces(h) /\ x \in JoinPackets(h)
                 \/ Serves(h) /\ hs[h].pc = "send" /\ x \in BroadcastPackets(h)
           /\ sock[AddrOwner[x.to]] = x.to /\ UNCHANGED <<clients, peers>>
<1>1. PICK h \in Handlers :
          \/ Announces(h) /\ x \in Deliverable(JoinPackets(h), sock)
          \/ /\ Serves(h) /\ hs[h].pc = "send"
             /\ x \in Deliverable(BroadcastPackets(h), sock) /\ Broadcast(h)
    <2>1. ASSUME NEW h \in Handlers, ServerStep(h)
          PROVE  \/ Announces(h) /\ x \in Deliverable(JoinPackets(h), sock)
                 \/ /\ Serves(h) /\ hs[h].pc = "send"
                    /\ x \in Deliverable(BroadcastPackets(h), sock) /\ Broadcast(h)
        <3>1. HeapInv /\ TypeInv /\ RequestsOK
            BY DEF IndInv, VIPInv, HeapInv, NetInv
        <3>2. ~Compute(h)
            BY DEF Compute, net
        <3>3. CASE JoinAnnounce(h) /\ down' = down \cup Deliverable(JoinPackets(h), sock)
                   /\ UNCHANGED <<up, clients>>
            BY <3>1, <3>3, AnnounceEffect
        <3>4. CASE Broadcast(h) /\ down' = down \cup Deliverable(BroadcastPackets(h), sock)
                   /\ UNCHANGED <<up, clients>>
            BY <3>1, <3>4, ServeEffect DEF Broadcast, At
        <3> QED BY <2>1, <3>2, <3>3, <3>4 DEF ServerStep, Send
    <2>2. ASSUME NEW h \in Handlers, NEW m \in up, Accept(h, m)  PROVE FALSE
        BY <2>2 DEF Accept
    <2> QED BY <2>1, <2>2, ClientStep DEF NetNext
<1>2. x \in Deliverable(JoinPackets(h), sock) \cup Deliverable(BroadcastPackets(h), sock)
    BY <1>1
<1>3. sock[AddrOwner[x.to]] = x.to
    BY <1>2 DEF Deliverable
<1>4. UNCHANGED <<clients, peers>>
    BY <1>1 DEF Announces, Serves, Broadcast
<1> QED BY <1>1, <1>3, <1>4 DEF Deliverable

\* A socket stays that of its client until the client opens or closes one.
LEMMA SockMoves ==
    ASSUME IndInv, NetInv, [NetNext]_allvars, NEW c \in PeerIDs
    PROVE  /\ \/ sock'[c] = sock[c]
              \/ Disconnect(c) /\ c \in left' /\ sock'[c] = None
              \/ \E a \in Addrs : Enter(c, a) /\ sock'[c] = a
           /\ used \subseteq used'
<1>0. sock \in [PeerIDs -> Addrs \cup {None}]
    BY DEF NetInv, NetTypeOK
<1>1. ASSUME NEW h \in Handlers, Registers(h) \/ TakesList(h) \/ Announces(h) \/ Serves(h)
      PROVE  UNCHANGED <<sock, used>>
    BY <1>1 DEF Registers, TakesList, Announces, Serves, clients
<1>2. ASSUME NEW h \in Handlers, NEW n \in up, Accepts(h, n)  PROVE UNCHANGED <<sock, used>>
    BY <1>2 DEF Accepts, clients
<1>3. ASSUME NEW n \in up, Reject(n)  PROVE UNCHANGED <<sock, used>>
    BY <1>3 DEF Reject, clients
<1>4. ASSUME NEW e \in PeerIDs, NEW d \in down, Handle(e, d)  PROVE UNCHANGED <<sock, used>>
    BY <1>4 DEF Handle, Takes, handleRoomStatus, handlePeerAddress, handlePeerLeave,
                handlePeerStatus
<1>5. ASSUME NEW e \in PeerIDs, SendPeerStatus(e)  PROVE UNCHANGED <<sock, used>>
    BY <1>5 DEF SendPeerStatus
<1>6. CASE UNCHANGED allvars
    BY <1>6 DEF allvars, clients
<1>7. ASSUME NEW e \in PeerIDs, NEW a \in Addrs, Enter(e, a)
      PROVE  /\ sock'[c] = IF e = c THEN a ELSE sock[c]
             /\ used \subseteq used'
    BY <1>0, <1>7 DEF Enter
<1>8. ASSUME NEW e \in PeerIDs, Disconnect(e)
      PROVE  /\ IF e = c THEN c \in left' /\ sock'[c] = None ELSE sock'[c] = sock[c]
             /\ used \subseteq used'
    BY <1>0, <1>8 DEF Disconnect
<1> QED BY <1>1, <1>2, <1>3, <1>4, <1>5, <1>6, <1>7, <1>8, NetCases

\* The Peer object of a client has an address of that client, and keeps its id.
LEMMA PeerMoves ==
    ASSUME IndInv, NetInv, [NetNext]_allvars, NEW m \in PeerObjs
    PROVE  /\ peer[m] # None => /\ peer'[m] # None /\ peer'[m].id = peer[m].id
                                /\ peer'[m].vip = peer[m].vip \/ peer'[m].vip \in VIPs
           /\ peer'[m] # None => AddrOwner[peer'[m].addr] = peer'[m].id
<1>0. /\ RequestsOK /\ (peer[m] # None => AddrOwner[peer[m].addr] = peer[m].id)
      /\ TypeInv /\ HeapInv /\ TypeInv'
    <2>1. up \subseteq Requests
        BY DEF NetInv, RequestsOK
    <2>2. [Next]_vars
        BY <2>1, ServerSteps
    <2> QED BY <2>2, ToldNext DEF NetInv, SocketsOK, IndInv, VIPInv, HeapInv
<1>1. peer[m] # None => peer'[m] # None
    <2>1. up \subseteq Requests /\ HeapInv
        BY <1>0 DEF RequestsOK
    <2>2. peer[m] # None => Allocated(m)
        BY <1>0 DEF Allocated, TypeInv, TypeOK
    <2> QED BY <2>1, <2>2, NoneAssumption, ServerSteps, PeerStep DEF Allocated
<1>2. ASSUME NEW h \in Handlers, Registers(h)
      PROVE  /\ peer[m] = None => peer'[m] = None
             /\ peer[m] # None =>
                   /\ peer'[m].id = peer[m].id
                   /\ peer'[m].vip = peer[m].vip \/ peer'[m].vip \in VIPs
                   /\ AddrOwner[peer'[m].addr] = peer'[m].id
    <2>1. AddrOwner[Req(h).from] = Req(h).id
        <3>1. Req(h) \in Requests /\ Req(h).kind = "JoinRoom"
            BY <1>0, <1>2, TypeHandler DEF Registers, At
        <3>2. Req(h).from \in Addrs
            BY <3>1, RequestFields
        <3> QED BY <1>2, <3>1, <3>2 DEF Registers, NetInv, SocketsOK, Joins, At, Is
    <2> QED BY <1>0, <1>2, <2>1 DEF Registers
<1>3. ASSUME NEW h \in Handlers, TakesList(h) \/ Announces(h) \/ Serves(h)
      PROVE  /\ peer[m] = None => peer'[m] = None
             /\ peer[m] # None => /\ peer'[m].id = peer[m].id /\ peer'[m].addr = peer[m].addr
                                  /\ peer'[m].vip = peer[m].vip
    BY <1>3 DEF TakesList, Announces, Serves, PeersKept
<1>4. ASSUME NEW h \in Handlers, NEW n \in up, Accepts(h, n)
      PROVE  \/ peer'[m] = peer[m]
             \/ peer[m] = None /\ peer'[m].id = n.id /\ AddrOwner[peer'[m].addr] = n.id
    <2>1. n.kind = "JoinRoom" => AddrOwner[n.from] = n.id
        BY <1>0 DEF RequestsOK, Requests
    <2> QED BY <1>4, <2>1 DEF Accepts
<1>5. CASE UNCHANGED peer
    BY <1>0, <1>5
<1> QED BY <1>0, <1>1, <1>2, <1>3, <1>4, <1>5, NetCases, ClientStep

\* The packets of a handler go to addresses.
LEMMA PacketsTo ==
    ASSUME IndInv, NetInv, NEW h \in Handlers,
           \/ Announces(h) \/ (Serves(h) /\ hs[h].pc = "send")
    PROVE  /\ \A m \in hs[h].snap : /\ m \in PeerObjs /\ peer[m] \in PeerRec /\ peer[m] # None
           /\ Announces(h) => \A x \in JoinPackets(h) : x.to \in Addrs
           /\ Serves(h) => \A x \in BroadcastPackets(h) : x.to \in Addrs
<1>1. TypeInv /\ ~At(h, "idle")
    BY DEF IndInv, VIPInv, HeapInv, Announces, At
<1>2. \A m \in hs[h].snap : m \in PeerObjs /\ peer[m] \in PeerRec /\ peer[m] # None
    BY <1>1, TypeHandler, NoneAssumption DEF PointersOK, Allocated
<1>3. \A m \in hs[h].snap : peer[m].addr \in Addrs
    BY <1>2 DEF PeerRec
<1>4. ASSUME Announces(h)  PROVE Req(h).from \in Addrs
    BY <1>1, <1>4, TypeHandler, RequestFields DEF Announces
<1>5. ASSUME Announces(h)  PROVE \A x \in JoinPackets(h) : x.to \in Addrs
    BY <1>3, <1>4, <1>5 DEF JoinPackets
<1>6. \A x \in BroadcastPackets(h) : x.to \in Addrs
    BY <1>3 DEF BroadcastPackets
<1> QED BY <1>2, <1>5, <1>6

\* Whose socket a JoinRoom names, on its way and at its handler.
LEMMA JoinFrom ==
    ASSUME IndInv, NetInv, [NetNext]_allvars, NEW h \in Handlers, NEW a \in Addrs, Joins(h, a)'
    PROVE  \/ Joins(h, a)
           \/ \E m \in up : Accepts(h, m) /\ m.kind = "JoinRoom" /\ m.from = a /\ m.id = Req(h)'.id
    BY ReqOrigin DEF Joins, At, Is, Req

LEMMA SocketsNext ==
    ASSUME IndInv, NetInv, [NetNext]_allvars
    PROVE  SocketsOK'
<1>0. SocketsOK /\ RequestsOK
    BY DEF NetInv
<1>6. ASSUME NEW a \in Addrs  PROVE used \subseteq used'
    BY SockMoves, OwnerAssumption
<1>1. ASSUME NEW c \in PeerIDs, sock'[c] # None
      PROVE  AddrOwner[sock'[c]] = c /\ sock'[c] \in used'
    <2>1. CASE sock'[c] = sock[c]
        BY <1>0, <1>1, <2>1, SockMoves DEF SocketsOK
    <2>2. ASSUME NEW a \in Addrs, Enter(c, a), sock'[c] = a  
          PROVE  AddrOwner[sock'[c]] = c /\ sock'[c] \in used'
        BY <2>2 DEF Enter
    <2> QED BY <1>1, <2>1, <2>2, SockMoves
<1>2. ASSUME NEW a \in Addrs, NEW m \in up', m.kind = "JoinRoom", m.from = a
      PROVE  a \in used'
    <2>1. CASE m \in up
        <3>1. Asked(a)
            BY <1>2, <2>1 DEF Asked
        <3> QED BY <1>0, <1>6, <3>1 DEF SocketsOK
    <2>2. CASE m \notin up
        <3>1. PICK c \in PeerIDs, b \in Addrs :
                Enter(c, b) /\ m = [kind |-> "JoinRoom", room |-> Lobby, id |-> c, from |-> b]
            BY <1>2, <2>2, JoinSent
        <3> QED BY <1>2, <3>1 DEF Enter
    <2> QED BY <2>1, <2>2
<1>3. ASSUME NEW h \in Handlers, NEW a \in Addrs, Joins(h, a)'
      PROVE  a \in used' /\ AddrOwner[a] = Req(h)'.id
    <2>1. CASE Joins(h, a)
        <3>1. a \in used' /\ AddrOwner[a] = Req(h).id
            BY <1>0, <1>6, <2>1 DEF SocketsOK
        <3>2. hs'[h].req = hs[h].req
            BY <1>3, <2>1, ReqOrigin DEF Joins, At, Accepts
        <3> QED BY <3>1, <3>2 DEF Req
    <2>2. ASSUME NEW m \in up, m.kind = "JoinRoom", m.from = a, m.id = Req(h)'.id
          PROVE  a \in used' /\ AddrOwner[a] = Req(h)'.id
        <3>1. a \in used'
            BY <1>0, <1>6, <2>2 DEF SocketsOK, Asked
        <3>2. m \in Requests
            BY <1>0, <2>2 DEF RequestsOK
        <3>3. AddrOwner[a] = m.id
            BY <2>2, <3>2 DEF Requests
        <3> QED BY <2>2, <3>1, <3>3
    <2> QED BY <1>3, <2>1, <2>2, JoinFrom
<1>4. \A m \in PeerObjs : peer'[m] # None => AddrOwner[peer'[m].addr] = peer'[m].id
    BY PeerMoves
<1>5. ASSUME NEW x \in down'  PROVE x.to \in Addrs /\ sock'[AddrOwner[x.to]] = x.to
    <2>1. CASE x \in down
        <3>1. x.to \in Addrs /\ sock[AddrOwner[x.to]] = x.to /\ AddrOwner[x.to] \in PeerIDs
            BY <1>0, <2>1, OwnerAssumption DEF SocketsOK
        <3>2. CASE \E c \in PeerIDs : Disconnect(c) \/ \E a \in Addrs : Enter(c, a)
            BY <3>1, <3>2 DEF Disconnect, Enter, Deliverable
        <3>3. CASE sock'[AddrOwner[x.to]] = sock[AddrOwner[x.to]]
            BY <3>1, <3>3
        <3> QED BY <3>1, <3>2, <3>3, SockMoves
    <2>2. CASE x \notin down
        <3>1. sock[AddrOwner[x.to]] = x.to /\ sock' = sock
            BY <2>2, DownOrigin DEF clients
        <3>2. x.to \in Addrs
            BY <2>2, DownOrigin, PacketsTo
        <3> QED BY <3>1, <3>2
    <2> QED BY <2>1, <2>2
<1> QED BY <1>1, <1>2, <1>3, <1>4, <1>5 DEF SocketsOK, Asked

-----------------------------------------------------------------------------
(* One list for each socket                                                  *)

\* Nothing that bears on the list for the socket a is new.
NothingNew(a) ==
    /\ Asked(a)' => Asked(a)
    /\ \A h \in Handlers : Joins(h, a)' => Joins(h, a)
    /\ \A x \in down' : Listing(x, a) => x \in down

\* The list is asked for, worked on or sent by these steps only.
LEMMA ListingCases ==
    ASSUME IndInv, NetInv, [NetNext]_allvars, NEW a \in Addrs
    PROVE  \/ NothingNew(a)
           \/ \E c \in PeerIDs : Enter(c, a)
           \/ \E h \in Handlers, m \in up : Accepts(h, m) /\ m.kind = "JoinRoom" /\ m.from = a
           \/ \E h \in Handlers : Announces(h) /\ Req(h).from = a
<1> SUFFICES ASSUME ~\E c \in PeerIDs : Enter(c, a),
                    ~\E h \in Handlers, m \in up :
                        Accepts(h, m) /\ m.kind = "JoinRoom" /\ m.from = a,
                    ~\E h \in Handlers : Announces(h) /\ Req(h).from = a
             PROVE  NothingNew(a)
    OBVIOUS
<1>1. ASSUME NEW m \in up', m.kind = "JoinRoom", m.from = a  PROVE m \in up
    <2> SUFFICES ASSUME m \notin up  PROVE FALSE
        OBVIOUS
    <2>1. PICK c \in PeerIDs, b \in Addrs :
            Enter(c, b) /\ m = [kind |-> "JoinRoom", room |-> Lobby, id |-> c, from |-> b]
        BY <1>1, JoinSent
    <2> QED BY <1>1, <2>1
<1>2. \A h \in Handlers : Joins(h, a)' => Joins(h, a)
    BY JoinFrom
<1>3. ASSUME NEW x \in down', Listing(x, a), x \notin down  PROVE FALSE
    <2>1. PICK h \in Handlers : \/ Announces(h) /\ x \in JoinPackets(h)
                                \/ Serves(h) /\ x \in BroadcastPackets(h)
        BY <1>3, DownOrigin
    <2>2. CASE Serves(h) /\ x \in BroadcastPackets(h)
        <3>1. x.body = Req(h)
            BY <2>2 DEF BroadcastPackets
        <3> QED BY <1>3, <2>2, <3>1 DEF Serves, Listing
    <2>3. CASE Announces(h) /\ x \in JoinPackets(h)
        <3>1. x.to = Req(h).from \/ x.body.kind = "PeerAddress"
            BY <2>3 DEF JoinPackets
        <3> QED BY <1>3, <2>3, <3>1 DEF Listing
    <2> QED BY <2>1, <2>2, <2>3
<1> QED BY <1>1, <1>2, <1>3 DEF NothingNew, Asked

\* A client sends one JoinRoom from each socket.
LEMMA OneRequest ==
    ASSUME RequestsOK, NEW m \in up, NEW n \in up, m.kind = "JoinRoom", n.kind = "JoinRoom",
           m.from = n.from
    PROVE  m = n
<1>1. ASSUME NEW q \in up, q.kind = "JoinRoom"
      PROVE  /\ q \in [kind: {"JoinRoom", "Ping"}, room: RoomIDs, id: PeerIDs, from: Addrs]
             /\ AddrOwner[q.from] = q.id /\ q.room = Lobby
    BY <1>1 DEF RequestsOK, Requests
<1> QED BY <1>1

LEMMA OneListingNext ==
    ASSUME IndInv, NetInv, [NetNext]_allvars
    PROVE  OneListing'
<1> DEFINE One(a) ==
        /\ Asked(a) => \A h \in Handlers : ~Joins(h, a)
        /\ \A g, h \in Handlers : Joins(g, a) /\ Joins(h, a) => g = h
        /\ Asked(a) \/ (\E h \in Handlers : Joins(h, a)) => \A x \in down : ~Listing(x, a)
        /\ \A x, y \in down : Listing(x, a) /\ Listing(y, a) => x = y
<1>0. RequestsOK /\ SocketsOK /\ \A a \in Addrs : One(a)
    BY DEF NetInv, OneListing
<1>1. ASSUME NEW a \in Addrs  PROVE One(a)'
    <2>1. CASE NothingNew(a)
        BY <1>0, <2>1 DEF NothingNew
    <2>2. ASSUME NEW c \in PeerIDs, Enter(c, a)  PROVE One(a)'
        <3>1. a \notin used /\ AddrOwner[a] = c /\ hs' = hs /\ down' \subseteq down
            BY <2>2 DEF Enter, server, Deliverable
        <3>2. \A h \in Handlers : ~Joins(h, a)'
            BY <1>0, <3>1 DEF SocketsOK, Joins, At, Is, Req
        <3>3. ASSUME NEW x \in down, x.to = a  PROVE FALSE
            BY <1>0, <3>1, <3>3, NilAssumption DEF SocketsOK
        <3> QED BY <3>1, <3>2, <3>3 DEF Listing
    <2>3. ASSUME NEW h \in Handlers, NEW m \in up,
                 Accepts(h, m), m.kind = "JoinRoom", m.from = a
          PROVE  One(a)'
        <3>1. Asked(a) /\ (\A g \in Handlers : ~Joins(g, a)) /\ (\A x \in down : ~Listing(x, a))
            BY <1>0, <2>3 DEF Asked
        <3>2. ~Asked(a)'
            BY <1>0, <2>3, OneRequest DEF Asked, Accepts
        <3>3. \A g \in Handlers : g # h => ~Joins(g, a)'
            BY <2>3, <3>1 DEF Accepts, Unmoved, Joins, At, Is, Req
        <3> QED BY <2>3, <3>1, <3>2, <3>3 DEF Accepts
    <2>4. ASSUME NEW h \in Handlers, Announces(h), Req(h).from = a  PROVE One(a)'
        <3>1. Joins(h, a)
            BY <2>4 DEF Announces, Joins, At, Is
        <3>2. /\ ~Asked(a)' /\ (\A x \in down : ~Listing(x, a))
              /\ \A g \in Handlers : ~Joins(g, a)'
            <4>1. up' = up /\ (\A g \in Handlers : g # h => hs'[g] = hs[g]) /\ hs'[h] = Idle
                BY <2>4 DEF Announces, Unmoved
            <4> QED BY <1>0, <3>1, <4>1 DEF Joins, Asked, At, Is, Req, Idle
        <3>3. ASSUME NEW x \in down', NEW y \in down', Listing(x, a), Listing(y, a)
              PROVE  x = y
            <4>1. x \in JoinPackets(h) /\ y \in JoinPackets(h)
                BY <2>4, <3>2, <3>3 DEF Announces, Deliverable
            <4>2. x.body.kind = "RoomStatus" /\ y.body.kind = "RoomStatus"
                BY <3>3 DEF Listing
            <4> QED BY <4>1, <4>2 DEF JoinPackets
        <3> QED BY <3>2, <3>3
    <2> HIDE DEF One
    <2> QED BY <2>1, <2>2, <2>3, <2>4, ListingCases
<1> QED BY <1>1 DEF OneListing

\* The list the socket asked for comes to its client in a RoomStatus.
LEMMA ArrivedFrom ==
    ASSUME IndInv, NetInv, [NetNext]_allvars, NEW c \in PeerIDs,
           sock'[c] # None, Arrived(sock[c])'
    PROVE  /\ sock'[c] = sock[c]
           /\ \/ Arrived(sock[c])
              \/ \E x \in down : Listing(x, sock[c]) /\ handleRoomStatus(c, x)
<1>0. RequestsOK /\ SocketsOK /\ NetTypeOK
    BY DEF NetInv
<1>1. sock'[c] = sock[c]
    <2>1. ASSUME NEW a \in Addrs, Enter(c, a), sock'[c] = a  PROVE FALSE
        <3>1. [kind |-> "JoinRoom", room |-> Lobby, id |-> c, from |-> a] \in up'
            BY <2>1 DEF Enter
        <3>2. Asked(a)'
            BY <3>1 DEF Asked
        <3>3. ~Asked(a)'
            BY <2>1 DEF Arrived, Asked
        <3> QED BY <3>2, <3>3
    <2>2. sock'[c] = None => FALSE
        OBVIOUS
    <2> QED BY <2>1, <2>2, SockMoves
<1>2. PICK a \in Addrs : sock[c] = a /\ sock'[c] = a /\ AddrOwner[a] = c
    BY <1>0, <1>1 DEF NetTypeOK, SocketsOK
<1>7. Arrived(a)'
    BY <1>2 DEF Arrived, Asked, Joins, Listing, At, Is, Req
<1>3. ASSUME NEW m \in up, m.kind = "JoinRoom", m.from = a  PROVE FALSE
    <2>1. m \notin up'
        BY <1>7, <1>3 DEF Arrived, Asked
    <2>2. ASSUME NEW h \in Handlers, NEW n \in up, Accepts(h, n)  PROVE m # n
        BY <1>7, <1>3, <2>2 DEF Accepts, Arrived, Joins, At, Is, Req
    <2> QED BY <1>3, <2>1, <2>2, UpLost
<1>4. ASSUME NEW h \in Handlers, Joins(h, a)  PROVE FALSE
    <2>1. ~Joins(h, a)'
        BY <1>7 DEF Arrived
    <2>2. Announces(h)
        <3>1. ASSUME NEW m \in up, Accepts(h, m)  PROVE FALSE
            BY <1>4, <3>1 DEF Accepts, Joins, At
        <3>2. hs'[h] # hs[h]
            BY <1>4, <2>1 DEF Joins, At, Is, Req
        <3>3. ~Registers(h) /\ ~TakesList(h)
            BY <1>4, <2>1 DEF Registers, TakesList, Joins, At, Is, Req
        <3>4. ~Serves(h)
            BY <1>4 DEF Serves, Joins, Is
        <3> QED BY <3>1, <3>2, <3>3, <3>4, HandlerMoves
    <2>3. PICK x \in JoinPackets(h) : Listing(x, a)
        <3> DEFINE b == [kind |-> "RoomStatus", room |-> Req(h).room, id |-> Req(h).id,
                         peers |-> {Info(m) : m \in hs[h].snap}, vip |-> hs[h].vip]
                   x == [to |-> Req(h).from, body |-> b]
        <3>1. x \in JoinPackets(h)
            BY DEF JoinPackets
        <3>2. b.kind = "RoomStatus"
            OBVIOUS
        <3> HIDE DEF b
        <3>3. x.to = a /\ x.body.kind = "RoomStatus"
            BY <1>4, <3>2 DEF Joins
        <3> QED BY <3>1, <3>3 DEF Listing
    <2>4. x \in down'
        BY <1>2, <2>2, <2>3 DEF Announces, Deliverable, Listing
    <2> QED BY <1>7, <2>3, <2>4 DEF Arrived
<1>5. ASSUME NEW x \in down, Listing(x, a)  PROVE handleRoomStatus(c, x)
    <2>1. x \notin down'
        BY <1>7, <1>5 DEF Arrived
    <2>2. PICK e \in PeerIDs : Handle(e, x) /\ x.to = sock[e]
        BY <1>2, <1>5, <2>1, DownLost DEF Listing
    <2>3. e = c
        BY <1>0, <1>2, <1>5, <2>2, NilAssumption DEF SocketsOK, Listing
    <2> QED BY <1>5, <2>2, <2>3 DEF Handle, handlePeerAddress, handlePeerLeave, handlePeerStatus,
                                    Takes, Listing
<1> QED BY <1>2, <1>3, <1>4, <1>5 DEF Arrived, Asked

-----------------------------------------------------------------------------
(* What the handlers know                                                    *)

\* Before a step, and of what a handler holds.
LEMMA HandlerHolds ==
    ASSUME IndInv, NetInv, NEW h \in Handlers
    PROVE  /\ \A m \in hs[h].snap : m \in PeerObjs /\ peer[m] \in PeerRec /\ peer[m] # None
                                    /\ m # None /\ peer[m].id \in PeerIDs
           /\ hs[h].pc # "idle" => /\ Req(h) \in Requests /\ Req(h).id \in PeerIDs
                                   /\ hs[h].room \in RoomObjs
<1>1. TypeInv /\ RequestsOK
    BY DEF IndInv, VIPInv, HeapInv, NetInv
<1>2. \A m \in hs[h].snap : m \in PeerObjs /\ peer[m] \in PeerRec
    BY <1>1 DEF TypeInv, PointersOK, Allocated
<1>3. \A m \in hs[h].snap : peer[m] # None /\ m # None /\ peer[m].id \in PeerIDs
    BY <1>2, NoneAssumption DEF PeerRec
<1>4. ASSUME hs[h].pc # "idle"
      PROVE  /\ Req(h) \in Requests /\ Req(h).id \in PeerIDs /\ hs[h].room \in RoomObjs
    <2>1. Req(h) \in Requests /\ hs[h].room \in RoomObjs
        BY <1>1, <1>4, TypeHandler DEF At
    <2>2. Req(h).kind \in NetKinds
        BY <1>1, <1>4 DEF RequestsOK, At
    <2> QED BY <2>1, <2>2, RequestFields DEF NetKinds
<1> QED BY <1>2, <1>3, <1>4

LEMMA SnapsNext ==
    ASSUME IndInv, NetInv, [NetNext]_allvars, NEW h \in Handlers, NEW m \in hs'[h].snap
    PROVE  /\ peer'[m].vip \in VIPs
           /\ peer'[m].id \notin left' => \E o \in RoomObjs : peers'[o][peer'[m].id] = m
<1>0. /\ RequestsOK /\ LeaversLeft /\ up \subseteq Requests /\ HandlersKnow /\ MembersOK
      /\ left \subseteq left'
    BY LeftGrows DEF NetInv, RequestsOK, IndInv, VIPInv, HeapInv, TypeInv
<1>1. m \in hs[h].snap \/ (TakesList(h) /\ m \in Members(hs[h].room))
    <2>1. ASSUME NEW n \in up, Accepts(h, n)  PROVE FALSE
        BY <2>1 DEF Accepts
    <2>2. ASSUME Announces(h)  PROVE FALSE
        BY <2>2 DEF Announces, Idle
    <2>3. Serves(h) \/ Registers(h) => m \in hs[h].snap
        BY DEF Serves, Registers, Idle
    <2> QED BY <2>1, <2>2, <2>3, HandlerMoves DEF TakesList
<1>2. CASE m \in hs[h].snap
    <2>1. /\ m \in PeerObjs /\ peer[m] # None /\ m # None /\ peer[m].id \in PeerIDs
          /\ peer[m].vip \in VIPs
          /\ peer[m].id \notin left => \E o \in RoomObjs : peers[o][peer[m].id] = m
        BY <1>0, <1>2, HandlerHolds DEF HandlersKnow
    <2>2. /\ peer'[m].id = peer[m].id
          /\ peer'[m].vip = peer[m].vip \/ peer'[m].vip \in VIPs
        BY <2>1, PeerMoves
    <2>3. ASSUME peer[m].id \notin left'
          PROVE  \E o \in RoomObjs : peers'[o][peer[m].id] = m
        <3>1. PICK o \in RoomObjs : peers[o][peer[m].id] = m
            BY <1>0, <2>1, <2>3
        <3>2. peers'[o][peer[m].id] = m
            BY <1>0, <2>1, <2>3, <3>1, StaysRegistered
        <3> QED BY <3>2
    <2> QED BY <2>1, <2>2, <2>3
<1>3. CASE TakesList(h) /\ m \in Members(hs[h].room)
    <2>1. UNCHANGED <<peers, peer>> /\ hs[h].room \in RoomObjs
        BY <1>3 DEF TakesList
    <2>2. PICK p \in PeerIDs : peers[hs[h].room][p] = m /\ m # None
        BY <1>3 DEF Members
    <2>3. peer[m].id = p /\ peer[m].vip \in VIPs
        BY <1>0, <2>1, <2>2 DEF MembersOK
    <2> QED BY <2>1, <2>2, <2>3
<1> QED BY <1>1, <1>2, <1>3

\* What a join knows once it has registered its client.
JoinKnows(h) ==
    LET m == peers[hs[h].room][Req(h).id] IN
    /\ VIPOf(Req(h).id, hs[h].vip)
    /\ Req(h).id \notin left => m # None /\ (At(h, "send") => m \in hs[h].snap)

LEMMA JoinsNext ==
    ASSUME IndInv, NetInv, [NetNext]_allvars, NEW h \in Handlers,
           hs'[h].pc \in {"snapshot", "send"}, hs'[h].req.kind = "JoinRoom"
    PROVE  JoinKnows(h)'
<1>0. /\ RequestsOK /\ LeaversLeft /\ up \subseteq Requests /\ left \subseteq left'
    BY LeftGrows DEF NetInv, RequestsOK
<1>1. ASSUME hs[h].pc \in {"snapshot", "send"}, hs[h].req.kind = "JoinRoom",
             hs'[h].req = hs[h].req, hs'[h].room = hs[h].room, hs'[h].vip = hs[h].vip
      PROVE  /\ VIPOf(Req(h).id, hs[h].vip)'
             /\ Req(h).id \notin left' =>
                   /\ peers[hs[h].room][Req(h).id] # None
                   /\ peers'[hs[h].room][Req(h).id] = peers[hs[h].room][Req(h).id]
                   /\ At(h, "send") => peers[hs[h].room][Req(h).id] \in hs[h].snap
    <2>1. /\ VIPOf(Req(h).id, hs[h].vip)
          /\ Req(h).id \notin left =>
                /\ peers[hs[h].room][Req(h).id] # None
                /\ At(h, "send") => peers[hs[h].room][Req(h).id] \in hs[h].snap
        BY <1>1 DEF NetInv, HandlersKnow, At, Is, Req
    <2>2. VIPOf(hs[h].req.id, hs[h].vip)'
        BY <1>1, <2>1, VIPOfKept DEF Req, VIPOf, RegisteredVIPs, Home
    <2>3. hs[h].room \in RoomObjs /\ Req(h).id \in PeerIDs
        BY <1>1, HandlerHolds
    <2> QED BY <1>0, <1>1, <2>1, <2>2, <2>3, StaysRegistered DEF Req
<1>2. CASE hs'[h] = hs[h]
    BY <1>1, <1>2 DEF JoinKnows, Req, At
<1>3. CASE Registers(h)
    <2>1. /\ hs'[h].pc = "snapshot" /\ Req(h)' = Req(h) /\ hs'[h].room = hs[h].room
          /\ hs[h].room \in RoomObjs /\ Req(h).id \in PeerIDs
          /\ peers'[hs[h].room][Req(h).id] # None /\ hs'[h].vip \in VIPs
          /\ peer'[peers'[hs[h].room][Req(h).id]].vip = hs'[h].vip
        BY <1>3 DEF Registers, Req
    <2>2. (hs[h].vip \in RegisteredVIPs(Req(h).id))'
        BY <2>1 DEF RegisteredVIPs, Home
    <2> QED BY <2>1, <2>2 DEF JoinKnows, VIPOf, At
<1>4. CASE TakesList(h)
    <2>1. /\ hs[h].pc = "snapshot" /\ hs'[h].req = hs[h].req /\ hs'[h].room = hs[h].room
          /\ hs'[h].vip = hs[h].vip /\ hs[h].room \in RoomObjs /\ peers' = peers
          /\ hs'[h].snap = Members(hs[h].room)
        BY <1>4 DEF TakesList
    <2>2. Req(h).id \in PeerIDs
        BY <2>1, HandlerHolds
    <2>3. peers[hs[h].room][Req(h).id] # None =>
            peers[hs[h].room][Req(h).id] \in Members(hs[h].room)
        BY <2>2 DEF Members
    <2> QED BY <1>1, <2>1, <2>3 DEF JoinKnows, Req, At
<1>5. ~Announces(h) /\ ~Serves(h)
    BY DEF Announces, Serves, Idle, Req
<1>6. ASSUME NEW m \in up, Accepts(h, m)  PROVE FALSE
    BY <1>6 DEF Accepts
<1> QED BY <1>2, <1>3, <1>4, <1>5, <1>6, HandlerMoves

LEMMA HandlersNext ==
    ASSUME IndInv, NetInv, [NetNext]_allvars
    PROVE  HandlersKnow'
<1>1. \A h \in Handlers : \A m \in hs'[h].snap :
          /\ peer'[m].vip \in VIPs
          /\ peer'[m].id \notin left' => \E o \in RoomObjs : peers'[o][peer'[m].id] = m
    BY SnapsNext
<1>2. \A h \in Handlers :
          hs'[h].pc \in {"snapshot", "send"} /\ hs'[h].req.kind = "JoinRoom" => JoinKnows(h)'
    BY JoinsNext
<1> QED BY <1>1, <1>2 DEF HandlersKnow, JoinKnows, At, Is, Req

-----------------------------------------------------------------------------
(* What the packets say                                                      *)

LEMMA BodyKept ==
    ASSUME IndInv, NetInv, [NetNext]_allvars, NEW a, NEW b, BodyOK(a, b)
    PROVE  BodyOK(a, b)'
<1>0. left \subseteq left'
    BY LeftGrows
<1>1. CASE b.kind = "RoomStatus"
    <2>1. /\ \A i \in b.peers : VIPOf(i.id, i.vip) /\ i.voice \in BOOLEAN
          /\ AddrOwner[a] \notin left => \E i \in b.peers : i.id = AddrOwner[a]
        BY <1>1 DEF BodyOK
    <2>2. ASSUME NEW i \in b.peers  PROVE VIPOf(i.id, i.vip)'
        BY <2>1, VIPOfKept
    <2> QED BY <1>0, <1>1, <2>1, <2>2 DEF BodyOK
<1>2. CASE b.kind = "PeerAddress"
    <2>1. VIPOf(b.id, b.vip) /\ b.voice \in BOOLEAN /\ b.id # AddrOwner[a]
        BY <1>2 DEF BodyOK
    <2>2. VIPOf(b.id, b.vip)'
        BY <2>1, VIPOfKept
    <2> QED BY <1>2, <2>1, <2>2 DEF BodyOK
<1>3. CASE b.kind = "PeerLeave"
    BY <1>0, <1>3 DEF BodyOK
<1>4. CASE b.kind = "PeerStatus"
    BY <1>4 DEF BodyOK
<1> QED BY <1>1, <1>2, <1>3, <1>4 DEF BodyOK

\* A join says of each member what the room has of it.
LEMMA MemberVIP ==
    ASSUME IndInv, NetInv, NEW h \in Handlers, NEW m \in hs[h].snap
    PROVE  VIPOf(peer[m].id, peer[m].vip)
<1>1. /\ peer[m].id \in PeerIDs /\ peer[m].vip \in VIPs /\ m # None
      /\ peer[m].id \notin left => \E o \in RoomObjs : peers[o][peer[m].id] = m
    BY HandlerHolds DEF NetInv, HandlersKnow
<1> QED BY <1>1 DEF VIPOf, RegisteredVIPs, Home

LEMMA JoinBodies ==
    ASSUME IndInv, NetInv, NEW h \in Handlers, Announces(h), NEW x \in JoinPackets(h)
    PROVE  BodyOK(x.to, x.body)
<1> DEFINE list == {Info(m) : m \in hs[h].snap}
<1>0. /\ hs[h].pc = "send" /\ Req(h).kind = "JoinRoom" /\ ~At(h, "idle")
      /\ TypeInv /\ SocketsOK /\ Req(h).id \in PeerIDs /\ hs[h].room \in RoomObjs
    BY HandlerHolds DEF Announces, At, IndInv, VIPInv, HeapInv, NetInv
<1>1. /\ VIPOf(Req(h).id, hs[h].vip)
      /\ Req(h).id \notin left =>
            /\ peers[hs[h].room][Req(h).id] # None
            /\ peers[hs[h].room][Req(h).id] \in hs[h].snap
    BY <1>0 DEF NetInv, HandlersKnow, At, Is
<1>2. ASSUME x.to = Req(h).from, x.body.kind = "RoomStatus", x.body.peers = list
      PROVE  BodyOK(x.to, x.body)
    <2>1. ASSUME NEW i \in list  PROVE VIPOf(i.id, i.vip) /\ i.voice \in BOOLEAN
        <3>1. PICK m \in hs[h].snap : i = Info(m)
            BY <2>1
        <3>2. i.id = peer[m].id /\ i.vip = peer[m].vip /\ i.voice = peer[m].voice
            BY <3>1 DEF Info
        <3>3. peer[m].voice \in BOOLEAN
            BY HandlerHolds DEF PeerRec
        <3> QED BY <3>2, <3>3, MemberVIP
    <2>2. AddrOwner[Req(h).from] = Req(h).id
        <3>1. Req(h).from \in Addrs
            BY <1>0, TypeHandler, RequestFields
        <3> QED BY <1>0, <3>1 DEF SocketsOK, Joins, Is
    <2>3. ASSUME Req(h).id \notin left  PROVE \E i \in list : i.id = Req(h).id
        <3>1. PICK m \in hs[h].snap : m = peers[hs[h].room][Req(h).id] /\ m # None
            BY <1>1, <2>3
        <3>2. peer[m].id = Req(h).id
            BY <1>0, <3>1 DEF TypeInv, MembersOK
        <3>3. Info(m) \in list /\ Info(m).id = peer[m].id
            BY DEF Info
        <3> QED BY <3>2, <3>3
    <2> HIDE DEF list
    <2> QED BY <1>2, <2>1, <2>2, <2>3 DEF BodyOK
<1>3. ASSUME NEW m \in hs[h].snap, peer[m].id # Req(h).id, x.to = peer[m].addr,
             x.body.kind = "PeerAddress", x.body.id = Req(h).id, x.body.vip = hs[h].vip,
             x.body.voice = peer[hs[h].peer].voice
      PROVE  BodyOK(x.to, x.body)
    <2>1. AddrOwner[peer[m].addr] = peer[m].id
        BY <1>0, HandlerHolds DEF SocketsOK
    <2>2. peer[hs[h].peer] \in PeerRec
        BY <1>0, TypeHandler DEF HoldsPeer, PointersOK, Allocated, Req
    <2>3. peer[hs[h].peer].voice \in BOOLEAN
        BY <2>2 DEF PeerRec
    <2> QED BY <1>1, <1>3, <2>1, <2>3 DEF BodyOK
<1> HIDE DEF list
<1>4. \/ x.to = Req(h).from /\ x.body.kind = "RoomStatus" /\ x.body.peers = list
      \/ \E m \in hs[h].snap :
            /\ peer[m].id # Req(h).id /\ x.to = peer[m].addr
            /\ x.body.kind = "PeerAddress" /\ x.body.id = Req(h).id /\ x.body.vip = hs[h].vip
            /\ x.body.voice = peer[hs[h].peer].voice
    BY DEF JoinPackets, list
<1> QED BY <1>2, <1>3, <1>4

LEMMA ServeBodies ==
    ASSUME IndInv, NetInv, NEW h \in Handlers, Serves(h), NEW x \in BroadcastPackets(h)
    PROVE  BodyOK(x.to, x.body)
<1>1. /\ x.body = Req(h) /\ Req(h) \in Requests /\ ~At(h, "idle")
      /\ Req(h).kind \in {"PeerLeave", "PeerStatus"}
    BY DEF BroadcastPackets, Serves, At
<1>2. Req(h).id \in PeerIDs /\ (Req(h).kind = "PeerStatus" => Req(h).voice \in BOOLEAN)
    BY <1>1, RequestFields
<1>3. Req(h).kind = "PeerLeave" => Req(h).id \in left
    BY <1>1 DEF NetInv, LeaversLeft, Is
<1> QED BY <1>1, <1>2, <1>3 DEF BodyOK

LEMMA PacketsNext ==
    ASSUME IndInv, NetInv, [NetNext]_allvars
    PROVE  PacketsOK'
<1> SUFFICES ASSUME NEW x \in down'  PROVE BodyOK(x.to, x.body)'
    BY DEF PacketsOK
<1>1. CASE x \in down
    BY <1>1, BodyKept DEF NetInv, PacketsOK
<1>2. CASE x \notin down
    BY <1>2, DownOrigin, JoinBodies, ServeBodies, BodyKept
<1> QED BY <1>1, <1>2

-----------------------------------------------------------------------------
(* What the clients know                                                     *)

\* A client that handles a packet knows what the packet says.
Learns(c, x) ==
    /\ table' \in [PeerIDs -> [PeerIDs -> Entry \cup {None}]]
    /\ own' \in [PeerIDs -> VIPs \cup {0}]
    /\ \A d \in PeerIDs : d # c => table'[d] = table[d] /\ own'[d] = own[d]
    /\ table'[c][c] = None
    /\ \A d \in PeerIDs : table'[c][d] # None => VIPOf(d, table'[c][d].vip)
    /\ x.body.kind = "RoomStatus" =>
          /\ c \notin left => VIPOf(c, own'[c])
          /\ \A i \in x.body.peers : i.id # c => table'[c][i.id] # None
    /\ x.body.kind # "RoomStatus" =>
          /\ own' = own
          /\ \A d \in PeerIDs \ left : table[c][d] # None => table'[c][d] # None

\* Entries are made of the packets' infos.
LEMMA EntryInfo ==
    ASSUME NEW i, NEW p, VIPOf(p, i.vip), i.voice \in BOOLEAN
    PROVE  /\ EntryOf(i) \in Entry /\ EntryOf(i) # None
           /\ EntryOf(i).vip = i.vip
<1>1. EntryOf(i) \in Entry
    BY DEF EntryOf, Entry, VIPOf
<1> QED BY <1>1, NilAssumption DEF EntryOf

\* Whose packet it is, and what is known of it.
LEMMA TakesEffect ==
    ASSUME NetInv, NEW c \in PeerIDs, NEW x \in down, x.to = sock[c]
    PROVE  AddrOwner[x.to] = c /\ BodyOK(x.to, x.body)
<1>1. x.to \in Addrs /\ x.to # None
    BY NilAssumption DEF NetInv, NetTypeOK
<1> QED BY <1>1 DEF NetInv, SocketsOK, PacketsOK

LEMMA LearnsList ==
    ASSUME NetInv, NEW c \in PeerIDs, NEW x \in down, handleRoomStatus(c, x)
    PROVE  Learns(c, x)
<1> DEFINE In(p) == \E i \in x.body.peers : i.id = p
           Of(p) == CHOOSE i \in x.body.peers : i.id = p
           T == [p \in PeerIDs |-> IF p # c /\ In(p) THEN EntryOf(Of(p)) ELSE None]
<1>0. x.to = sock[c] /\ x.body.kind = "RoomStatus" /\ NetTypeOK
    BY DEF handleRoomStatus, Takes, NetInv
<1>1. AddrOwner[x.to] = c /\ BodyOK(x.to, x.body)
    BY <1>0, TakesEffect
<1>2. /\ own' = [own EXCEPT ![c] = IF In(c) THEN Of(c).vip ELSE 0]
      /\ table' = [table EXCEPT ![c] = T]
    BY DEF handleRoomStatus
<1>3. /\ \A i \in x.body.peers : VIPOf(i.id, i.vip) /\ i.voice \in BOOLEAN
      /\ c \notin left => In(c)
    BY <1>0, <1>1 DEF BodyOK
<1>4. ASSUME NEW p, In(p)
      PROVE  Of(p) \in x.body.peers /\ Of(p).id = p /\ VIPOf(p, Of(p).vip)
             /\ Of(p).voice \in BOOLEAN
    <2>1. Of(p) \in x.body.peers /\ Of(p).id = p
        BY <1>4
    <2> QED BY <1>3, <2>1
<1>9. \A i \in x.body.peers : In(i.id) /\ i.id \in PeerIDs
    BY <1>3 DEF VIPOf
<1> HIDE DEF In, Of
<1>5. ASSUME NEW p, In(p)
      PROVE  /\ EntryOf(Of(p)) \in Entry /\ EntryOf(Of(p)) # None
             /\ VIPOf(p, EntryOf(Of(p)).vip)
    <2>1. VIPOf(p, Of(p).vip) /\ Of(p).voice \in BOOLEAN
        BY <1>4, <1>5
    <2>2. EntryOf(Of(p)).vip = Of(p).vip
        BY <2>1, EntryInfo
    <2> QED BY <2>1, <2>2, EntryInfo
<1>6. /\ T \in [PeerIDs -> Entry \cup {None}] /\ T[c] = None
      /\ \A p \in PeerIDs : T[p] # None => VIPOf(p, T[p].vip)
      /\ \A p \in PeerIDs : p # c /\ In(p) => T[p] # None
    BY <1>5
<1> HIDE DEF T
<1>7. /\ table' \in [PeerIDs -> [PeerIDs -> Entry \cup {None}]] /\ table'[c] = T
      /\ \A d \in PeerIDs : d # c => table'[d] = table[d]
    BY <1>0, <1>2, <1>6 DEF NetTypeOK
<1>8. /\ own' \in [PeerIDs -> VIPs \cup {0}]
      /\ \A d \in PeerIDs : d # c => own'[d] = own[d]
      /\ c \notin left => VIPOf(c, own'[c])
    BY <1>0, <1>2, <1>3, <1>4 DEF NetTypeOK, VIPOf
<1> QED BY <1>0, <1>6, <1>7, <1>8, <1>9 DEF Learns

LEMMA LearnsPeer ==
    ASSUME NetInv, NEW c \in PeerIDs, NEW x \in down,
           handlePeerAddress(c, x) \/ handlePeerLeave(c, x) \/ handlePeerStatus(c, x)
    PROVE  Learns(c, x)
<1> DEFINE b == x.body
<1>0. /\ x.to = sock[c] /\ b.kind \in {"PeerAddress", "PeerLeave", "PeerStatus"}
      /\ NetTypeOK /\ own' = own
      /\ \A d \in PeerIDs : Knows(c, d) => VIPOf(d, table[c][d].vip)
    BY DEF handlePeerAddress, handlePeerLeave, handlePeerStatus, Takes, NetInv, TablesOK
<1>1. AddrOwner[x.to] = c /\ BodyOK(x.to, b)
    BY <1>0, TakesEffect
<1>2. /\ table \in [PeerIDs -> [PeerIDs -> Entry \cup {None}]] /\ table[c][c] = None
      /\ own \in [PeerIDs -> VIPs \cup {0}]
    BY <1>0 DEF NetTypeOK
<1>3. ASSUME NEW p \in PeerIDs, NEW e \in Entry \cup {None},
             table' = [table EXCEPT ![c][p] = e], p = c => e = None,
             e # None => VIPOf(p, e.vip), e = None => p \in left \/ table[c][p] = None
      PROVE  Learns(c, x)
    <2>1. /\ table' \in [PeerIDs -> [PeerIDs -> Entry \cup {None}]]
          /\ \A d \in PeerIDs : d # c => table'[d] = table[d]
          /\ table'[c][p] = e /\ \A d \in PeerIDs : d # p => table'[c][d] = table[c][d]
        BY <1>2, <1>3
    <2> QED BY <1>0, <1>2, <1>3, <2>1 DEF Learns, Knows
<1>4. CASE handlePeerAddress(c, x)
    <2>1. VIPOf(b.id, b.vip) /\ b.voice \in BOOLEAN /\ b.id # c /\ b.id \in PeerIDs
        BY <1>1, <1>4 DEF handlePeerAddress, Takes, BodyOK, VIPOf
    <2>2. /\ EntryOf(b) \in Entry /\ EntryOf(b) # None /\ VIPOf(b.id, EntryOf(b).vip)
        BY <2>1, EntryInfo
    <2>3. table' = [table EXCEPT ![c][b.id] = EntryOf(b)]
        BY <1>4 DEF handlePeerAddress
    <2> QED BY <1>3, <2>1, <2>2, <2>3
<1>5. CASE handlePeerLeave(c, x)
    <2>1. b.id \in left /\ b.id \in PeerIDs
        BY <1>0, <1>1, <1>5 DEF handlePeerLeave, Takes, BodyOK, NetTypeOK
    <2>2. table' = [table EXCEPT ![c][b.id] = None]
        BY <1>5 DEF handlePeerLeave
    <2> QED BY <1>3, <2>1, <2>2
<1>6. CASE handlePeerStatus(c, x)
    <2>1. b.id \in PeerIDs /\ b.voice \in BOOLEAN
        BY <1>1, <1>6 DEF handlePeerStatus, Takes, BodyOK
    <2>2. CASE b.id = c \/ table[c][b.id] = None
        <3>1. table' = table
            BY <1>6, <2>2 DEF handlePeerStatus
        <3> QED BY <1>0, <1>2, <3>1 DEF Learns, Knows
    <2>3. CASE ~(b.id = c \/ table[c][b.id] = None)
        <3> DEFINE e == [table[c][b.id] EXCEPT !.voice = b.voice]
        <3>1. table[c][b.id] \in Entry
            BY <1>2, <2>1, <2>3
        <3>2. e \in Entry /\ e.vip = table[c][b.id].vip
            BY <2>1, <3>1 DEF Entry
        <3>3. table' = [table EXCEPT ![c][b.id].voice = b.voice]
            BY <1>6, <2>3 DEF handlePeerStatus
        <3>4. table' = [table EXCEPT ![c][b.id] = e]
            BY <3>3
        <3>5. e # None /\ VIPOf(b.id, e.vip)
            BY <1>0, <2>1, <2>3, <3>2, NilAssumption DEF Knows
        <3> HIDE DEF e
        <3> QED BY <1>3, <2>1, <2>3, <3>2, <3>4, <3>5
    <2> QED BY <2>2, <2>3
<1> QED BY <1>4, <1>5, <1>6

LEMMA Learning ==
    ASSUME NetInv, NEW c \in PeerIDs, NEW x \in down, Handle(c, x)
    PROVE  Learns(c, x)
    BY LearnsList, LearnsPeer DEF Handle

\* What a client knows it knew before, or it has just learnt it.
LEMMA TableMoves ==
    ASSUME IndInv, NetInv, [NetNext]_allvars, NEW c \in PeerIDs
    PROVE  \/ table'[c] = table[c] /\ own'[c] = own[c]
           \/ /\ Disconnect(c) \/ \E a \in Addrs : Enter(c, a)
              /\ table'[c] = Nobody /\ own'[c] = 0
           \/ \E x \in down : Handle(c, x) /\ Learns(c, x)
<1>0. NetTypeOK
    BY DEF NetInv
<1>1. ASSUME NEW h \in Handlers, Registers(h) \/ TakesList(h) \/ Announces(h) \/ Serves(h)
      PROVE  UNCHANGED <<table, own>>
    BY <1>1 DEF Registers, TakesList, Announces, Serves, clients
<1>2. ASSUME NEW h \in Handlers, NEW n \in up, Accepts(h, n)  PROVE UNCHANGED <<table, own>>
    BY <1>2 DEF Accepts, clients
<1>3. ASSUME NEW n \in up, Reject(n)  PROVE UNCHANGED <<table, own>>
    BY <1>3 DEF Reject, clients
<1>4. ASSUME NEW e \in PeerIDs, NEW x \in down, Handle(e, x)
      PROVE  IF e = c THEN Learns(c, x) ELSE table'[c] = table[c] /\ own'[c] = own[c]
    BY <1>4, Learning DEF Learns
<1>5. ASSUME NEW e \in PeerIDs, SendPeerStatus(e)  PROVE UNCHANGED <<table, own>>
    BY <1>5 DEF SendPeerStatus
<1>6. ASSUME NEW e \in PeerIDs, Disconnect(e) \/ \E a \in Addrs : Enter(e, a)
      PROVE  IF e = c THEN table'[c] = Nobody /\ own'[c] = 0
             ELSE table'[c] = table[c] /\ own'[c] = own[c]
    BY <1>0, <1>6 DEF Disconnect, Enter, NetTypeOK
<1>7. CASE UNCHANGED allvars
    BY <1>7 DEF allvars, clients
<1> QED BY <1>1, <1>2, <1>3, <1>4, <1>5, <1>6, <1>7, NetCases

LEMMA TablesNext ==
    ASSUME IndInv, NetInv, [NetNext]_allvars
    PROVE  TablesOK'
<1>0. TablesOK /\ SocketsOK /\ NetTypeOK
    BY DEF NetInv
<1>1. ASSUME NEW c \in PeerIDs, NEW d \in PeerIDs, table'[c][d] # None
      PROVE  VIPOf(d, table[c][d].vip)'
    <2>1. VIPOf(d, table'[c][d].vip)
        <3>1. CASE table'[c] = table[c]
            BY <1>0, <1>1, <3>1 DEF TablesOK, Knows
        <3>2. table'[c] # Nobody
            BY <1>1 DEF Nobody
        <3>3. ASSUME NEW x \in down, Learns(c, x)  PROVE VIPOf(d, table'[c][d].vip)
            BY <1>1, <3>3 DEF Learns
        <3> QED BY <3>1, <3>2, <3>3, TableMoves
    <2>2. PICK v : v = table'[c][d].vip
        OBVIOUS
    <2>3. VIPOf(d, v)'
        BY <2>1, <2>2, VIPOfKept
    <2> QED BY <2>2, <2>3
<1>2. ASSUME NEW c \in PeerIDs, sock'[c] # None, c \notin left', Arrived(sock[c])'
      PROVE  VIPOf(c, own[c])'
    <2>1. /\ sock'[c] = sock[c] /\ c \notin left /\ c \in Settled
          /\ \/ Arrived(sock[c])
             \/ \E x \in down : Listing(x, sock[c]) /\ handleRoomStatus(c, x)
        BY <1>2, ArrivedFrom, LeftGrows DEF Settled
    <2>2. ~Disconnect(c) /\ \A a \in Addrs : ~Enter(c, a)
        BY <1>0, <1>2, <2>1 DEF Disconnect, Enter, SocketsOK, NetTypeOK
    <2>3. VIPOf(c, own'[c])
        <3>1. ASSUME NEW x \in down, handleRoomStatus(c, x)  PROVE VIPOf(c, own'[c])
            BY <2>1, <3>1, LearnsList DEF handleRoomStatus, Takes, Learns
        <3>2. CASE Arrived(sock[c])
            <4>1. VIPOf(c, own[c])
                BY <1>0, <2>1, <3>2 DEF TablesOK
            <4>2. ASSUME NEW x \in down, Learns(c, x)  PROVE VIPOf(c, own'[c])
                BY <2>1, <4>1, <4>2 DEF Learns
            <4> QED BY <2>2, <4>1, <4>2, TableMoves
        <3> QED BY <2>1, <3>1, <3>2
    <2>4. PICK v : v = own'[c]
        OBVIOUS
    <2>5. VIPOf(c, v)'
        BY <2>3, <2>4, VIPOfKept
    <2> QED BY <2>4, <2>5
<1> QED BY <1>1, <1>2 DEF TablesOK, Knows, Settled

LEMMA NetTypeNext ==
    ASSUME IndInv, NetInv, [NetNext]_allvars
    PROVE  NetTypeOK'
<1>0. NetTypeOK /\ SocketsOK'
    BY SocketsNext DEF NetInv
<1> DEFINE Types == /\ sock \in [PeerIDs -> Addrs \cup {None}] /\ used \subseteq Addrs
                    /\ table \in [PeerIDs -> [PeerIDs -> Entry \cup {None}]]
                    /\ \A c \in PeerIDs : table[c][c] = None
                    /\ own \in [PeerIDs -> VIPs \cup {0}]
                    /\ voiced \subseteq PeerIDs /\ left \subseteq PeerIDs
<1>1. Types
    BY <1>0 DEF NetTypeOK
<1>2. UNCHANGED <<sock, used, table, own, voiced, left>> => Types'
    BY <1>1
<1>3. ASSUME NEW h \in Handlers, Registers(h) \/ TakesList(h) \/ Announces(h) \/ Serves(h)
      PROVE  Types'
    BY <1>2, <1>3 DEF Registers, TakesList, Announces, Serves, clients
<1>4. ASSUME NEW h \in Handlers, NEW n \in up, Accepts(h, n)  PROVE Types'
    BY <1>2, <1>4 DEF Accepts, clients
<1>5. ASSUME NEW n \in up, Reject(n)  PROVE Types'
    BY <1>2, <1>5 DEF Reject, clients
<1>6. ASSUME UNCHANGED allvars  PROVE Types'
    BY <1>2, <1>6 DEF allvars, clients
<1>7. ASSUME NEW c \in PeerIDs, SendPeerStatus(c)  PROVE Types'
    BY <1>1, <1>7 DEF SendPeerStatus
<1>8. Nobody \in [PeerIDs -> Entry \cup {None}] /\ \A c \in PeerIDs : Nobody[c] = None
    BY DEF Nobody
<1>9. ASSUME NEW c \in PeerIDs, Disconnect(c)  PROVE Types'
    BY <1>1, <1>8, <1>9 DEF Disconnect
<1>10. ASSUME NEW c \in PeerIDs, NEW a \in Addrs, Enter(c, a)  PROVE Types'
    BY <1>1, <1>8, <1>10 DEF Enter
<1>11. ASSUME NEW c \in PeerIDs, NEW x \in down, Handle(c, x)  PROVE Types'
    <2>1. Learns(c, x) /\ UNCHANGED <<sock, used, voiced, left>>
        BY <1>11, Learning DEF Handle, Takes, handleRoomStatus, handlePeerAddress,
                               handlePeerLeave, handlePeerStatus
    <2>2. \A d \in PeerIDs : table'[d][d] = None
        BY <1>1, <2>1 DEF Learns
    <2> QED BY <1>1, <2>1, <2>2 DEF Learns
<1>12. Types'
    <2> HIDE DEF Types
    <2> QED BY <1>3, <1>4, <1>5, <1>6, <1>7, <1>9, <1>10, <1>11, NetCases
<1>13. (up \subseteq Requests)'
    BY <1>0, UpNext DEF NetTypeOK
<1> QED BY <1>0, <1>12, <1>13 DEF NetTypeOK, SocketsOK

-----------------------------------------------------------------------------
(* Of two members of a room one is told of the other                         *)

\* A client that is not waiting for its list has its socket since before.
LEMMA SettledBefore ==
    ASSUME IndInv, NetInv, [NetNext]_allvars, NEW c \in Settled', ~Pending(sock[c])'
    PROVE  /\ c \in Settled /\ sock'[c] = sock[c] /\ c \in PeerIDs /\ c \notin left'
           /\ sock[c] \in Addrs /\ sock[c] \in used /\ AddrOwner[sock[c]] = c
<1>1. c \in PeerIDs /\ sock'[c] # None /\ c \notin left' /\ c \notin left
    BY LeftGrows DEF Settled
<1>2. ASSUME NEW a \in Addrs, Enter(c, a), sock'[c] = a  PROVE FALSE
    <2>1. [kind |-> "JoinRoom", room |-> Lobby, id |-> c, from |-> a] \in up'
        BY <1>2 DEF Enter
    <2>2. Asked(a)'
        BY <2>1 DEF Asked
    <2>3. ~Asked(a)'
        BY <1>2 DEF Pending, Asked
    <2> QED BY <2>2, <2>3
<1>3. sock'[c] = sock[c]
    BY <1>1, <1>2, SockMoves
<1> QED BY <1>1, <1>3 DEF Settled, NetInv, NetTypeOK, SocketsOK

\* A client waits for its list until a handler has taken it.
LEMMA PendingLost ==
    ASSUME IndInv, NetInv, [NetNext]_allvars, NEW a \in Addrs, Pending(a), ~Pending(a)'
    PROVE  \E h \in Handlers : TakesList(h) /\ Joins(h, a)
<1>1. ASSUME NEW m \in up, m.kind = "JoinRoom", m.from = a  PROVE FALSE
    <2>1. m \notin up'
        BY <1>1 DEF Pending, Asked
    <2>2. PICK h \in Handlers : Accepts(h, m)
        BY <1>1, <2>1, UpLost
    <2>3. Joins(h, a)' /\ ~At(h, "send")'
        BY <1>1, <2>2 DEF Accepts, Joins, At, Is, Req
    <2> QED BY <2>3 DEF Pending
<1>2. PICK h \in Handlers : Joins(h, a) /\ ~At(h, "send")
    BY <1>1 DEF Pending, Asked
<1>3. ~Joins(h, a)' \/ At(h, "send")'
    BY DEF Pending
<1>4. hs'[h] # hs[h]
    BY <1>2, <1>3 DEF Joins, At, Is, Req
<1>5. ~Registers(h)
    BY <1>2, <1>3 DEF Registers, Joins, At, Is, Req
<1>6. ~Announces(h) /\ ~Serves(h)
    BY <1>2 DEF Announces, Serves, Joins, At, Is
<1>7. ASSUME NEW m \in up, Accepts(h, m)  PROVE FALSE
    BY <1>2, <1>7 DEF Accepts, Joins, At
<1> QED BY <1>2, <1>4, <1>5, <1>6, <1>7, HandlerMoves

\* Who takes the list last finds the others on it.
LEMMA ListTaken ==
    ASSUME IndInv, NetInv, [NetNext]_allvars,
           NEW c \in PeerIDs, NEW d \in PeerIDs, NEW o \in RoomObjs,
           c \notin left', sock'[c] = sock[c], sock[c] \in Addrs, AddrOwner[sock[c]] = c,
           Pending(sock[c]), ~Pending(sock[c])', Home(c)' = {o}, o \in Home(d)'
    PROVE  Lists(c, d)'
<1>1. PICK a \in Addrs : a = sock[c] /\ a = sock'[c] /\ AddrOwner[a] = c
    OBVIOUS
<1>2. Pending(a) /\ ~Pending(a)'
    BY <1>1 DEF Pending, Asked, Joins, At, Is, Req
<1>3. PICK h \in Handlers : TakesList(h) /\ Joins(h, a)
    BY <1>2, PendingLost
<1>4. /\ hs[h].pc = "snapshot" /\ hs'[h].pc = "send" /\ hs[h].room \in RoomObjs
      /\ hs'[h].req = hs[h].req /\ hs'[h].snap = Members(hs[h].room)
      /\ peers' = peers /\ peer' = peer
    BY <1>3 DEF TakesList
<1>5. Req(h).id = c
    BY <1>1, <1>3 DEF NetInv, SocketsOK
<1>6. peers[hs[h].room][c] # None
    <2>1. c \notin left
        BY LeftGrows
    <2> QED BY <1>3, <1>4, <1>5, <2>1 DEF NetInv, HandlersKnow, Joins, At
<1>7. hs[h].room = o
    BY <1>4, <1>6 DEF Home
<1>8. peers[o][d] # None /\ peers[o][d] \in hs'[h].snap
    BY <1>4, <1>7 DEF Home, Members
<1>9. peer'[peers[o][d]].id = d
    BY <1>4, <1>8 DEF IndInv, VIPInv, HeapInv, TypeInv, MembersOK
<1>10. Joins(h, a)' /\ At(h, "send")'
    BY <1>3, <1>4 DEF Joins, At, Is, Req
<1>11. (Joins(h, sock[c]))'
    BY <1>1, <1>10 DEF Joins, At, Is, Req
<1> QED BY <1>8, <1>9, <1>10, <1>11 DEF Lists

\* A client is registered once its list has been taken.
LEMMA HomeNotEmpty ==
    ASSUME IndInv, NetInv, NEW c \in Settled, ~Pending(sock[c])
    PROVE  \E o \in RoomObjs : peers[o][c] # None
<1>0. c \in PeerIDs /\ c \notin left /\ sock[c] \in Addrs /\ AddrOwner[sock[c]] = c
    BY DEF NetInv, NetTypeOK, SocketsOK, Settled
<1>1. ASSUME NEW v, VIPOf(c, v)  PROVE \E o \in RoomObjs : peers[o][c] # None
    BY <1>0, <1>1 DEF VIPOf, RegisteredVIPs, Home
<1>2. ASSUME NEW h \in Handlers, Joins(h, sock[c])
      PROVE  \E o \in RoomObjs : peers[o][c] # None
    <2>1. At(h, "send") /\ Is(h, "JoinRoom")
        BY <1>2 DEF Pending, Joins
    <2>2. Req(h).id = c
        BY <1>0, <1>2 DEF NetInv, SocketsOK
    <2>3. VIPOf(c, hs[h].vip)
        BY <2>1, <2>2 DEF NetInv, HandlersKnow
    <2> QED BY <1>1, <2>3
<1>3. ASSUME NEW x \in down, Listing(x, sock[c])
      PROVE  \E o \in RoomObjs : peers[o][c] # None
    <2>1. BodyOK(x.to, x.body) /\ x.body.kind = "RoomStatus" /\ AddrOwner[x.to] = c
        BY <1>0, <1>3 DEF NetInv, PacketsOK, Listing
    <2>2. PICK i \in x.body.peers : i.id = c /\ VIPOf(i.id, i.vip)
        BY <1>0, <2>1 DEF BodyOK
    <2> QED BY <1>1, <2>2
<1>4. ASSUME Arrived(sock[c])  PROVE \E o \in RoomObjs : peers[o][c] # None
    BY <1>1, <1>4 DEF NetInv, TablesOK
<1>5. ~Asked(sock[c])
    BY DEF Pending
<1> QED BY <1>2, <1>3, <1>4, <1>5 DEF Arrived

\* What a handler is about to tell, it tells.
LEMMA SendingKept ==
    ASSUME IndInv, NetInv, [NetNext]_allvars, NEW c \in PeerIDs, NEW d, NEW a \in Addrs,
           a = sock[c], sock'[c] = a, AddrOwner[a] = c,
           NEW h \in Handlers, Joins(h, a), At(h, "send"), NEW m \in hs[h].snap, peer[m].id = d
    PROVE  \/ Joins(h, a)' /\ At(h, "send")' /\ m \in hs'[h].snap /\ peer'[m].id = d
           \/ \E x \in down' : Listing(x, a) /\ \E i \in x.body.peers : i.id = d
<1>1. CASE hs'[h] = hs[h]
    <2>1. peer'[m].id = d
        BY HandlerHolds, PeerMoves
    <2> QED BY <1>1, <2>1 DEF Joins, At, Is, Req
<1>2. CASE Announces(h)
    <2> DEFINE list == {Info(n) : n \in hs[h].snap}
               b == [kind |-> "RoomStatus", room |-> Req(h).room, id |-> Req(h).id,
                     peers |-> list, vip |-> hs[h].vip]
               x == [to |-> Req(h).from, body |-> b]
    <2>1. x \in JoinPackets(h)
        BY DEF JoinPackets
    <2>2. Info(m) \in list /\ Info(m).id = d
        BY DEF Info
    <2> HIDE DEF list
    <2>3. b.kind = "RoomStatus" /\ b.peers = list
        OBVIOUS
    <2> HIDE DEF b
    <2>4. x.to = a /\ x.body.kind = "RoomStatus" /\ x.body.peers = list
        BY <2>3 DEF Joins
    <2> HIDE DEF x
    <2>5. x \in down'
        BY <1>2, <2>1, <2>4 DEF Announces, Deliverable
    <2> QED BY <2>2, <2>4, <2>5 DEF Listing
<1>3. ~Registers(h) /\ ~TakesList(h) /\ ~Serves(h)
    BY DEF Registers, TakesList, Serves, Joins, At, Is
<1>4. ASSUME NEW n \in up, Accepts(h, n)  PROVE FALSE
    BY <1>4 DEF Accepts, At
<1> QED BY <1>1, <1>2, <1>3, <1>4, HandlerMoves

\* A list on its way gets to its client, which then knows whom it names.
LEMMA ListKept ==
    ASSUME IndInv, NetInv, [NetNext]_allvars, NEW c \in PeerIDs, NEW d \in PeerIDs, c # d,
           NEW a \in Addrs, a = sock[c], sock'[c] = a, AddrOwner[a] = c,
           NEW x \in down, Listing(x, a), NEW i \in x.body.peers, i.id = d
    PROVE  \/ x \in down'
           \/ Arrived(a)' /\ table'[c][d] # None
<1> SUFFICES ASSUME x \notin down'  PROVE Arrived(a)' /\ table'[c][d] # None
    OBVIOUS
<1>1. PICK e \in PeerIDs : Handle(e, x) /\ x.to = sock[e]
    BY DownLost DEF Listing
<1>2. e = c
    BY <1>1, NilAssumption DEF NetInv, SocketsOK, Listing
<1>3. handleRoomStatus(c, x)
    BY <1>1, <1>2 DEF Handle, handlePeerAddress, handlePeerLeave, handlePeerStatus, Takes,
                      Listing
<1>4. table'[c][d] # None
    BY <1>3, LearnsList DEF Learns, Listing
<1>5. up' = up /\ hs' = hs /\ down' = down \ {x}
    BY <1>3 DEF handleRoomStatus, Takes, server
<1>6. /\ ~Asked(a) /\ (\A h \in Handlers : ~Joins(h, a))
      /\ \A y \in down : Listing(y, a) => y = x
    BY DEF NetInv, OneListing
<1>7. Arrived(a)'
    BY <1>5, <1>6 DEF Arrived, Asked, Joins, At, Is, Req
<1> QED BY <1>4, <1>7

\* A client that has its list forgets only who leaves.
LEMMA KnownKept ==
    ASSUME IndInv, NetInv, [NetNext]_allvars, NEW c \in PeerIDs, NEW d \in PeerIDs,
           d \notin left', NEW a \in Addrs, a = sock[c], sock'[c] = a, c \notin left',
           Arrived(a), Knows(c, d)
    PROVE  Arrived(a)' /\ table'[c][d] # None
<1>0. a \in used /\ a # None /\ d \notin left
    BY LeftGrows, NilAssumption DEF NetInv, SocketsOK
<1>1. Arrived(a)'
    <2>1. ASSUME NEW e \in PeerIDs, Enter(e, a)  PROVE FALSE
        BY <1>0, <2>1 DEF Enter
    <2>2. ASSUME NEW h \in Handlers, NEW m \in up, m.kind = "JoinRoom", m.from = a  PROVE FALSE
        BY <2>2 DEF Arrived, Asked
    <2>3. ASSUME NEW h \in Handlers, Announces(h), Req(h).from = a  PROVE FALSE
        BY <2>3 DEF Arrived, Announces, Joins, At, Is
    <2>4. NothingNew(a)
        BY <2>1, <2>2, <2>3, ListingCases
    <2> QED BY <2>4 DEF NothingNew, Arrived
<1>2. ~Disconnect(c) /\ \A b \in Addrs : ~Enter(c, b)
    BY <1>0 DEF Disconnect, Enter, NetInv, NetTypeOK
<1>3. ASSUME NEW x \in down, Handle(c, x), Learns(c, x)  PROVE table'[c][d] # None
    <2>1. x.to = a
        BY <1>3 DEF Handle, Takes, handleRoomStatus, handlePeerAddress, handlePeerLeave,
                    handlePeerStatus
    <2>2. x.body.kind # "RoomStatus"
        BY <2>1 DEF Arrived, Listing
    <2> QED BY <1>0, <1>3, <2>2 DEF Learns, Knows
<1> QED BY <1>1, <1>2, <1>3, TableMoves DEF Knows

LEMMA ListsKept ==
    ASSUME IndInv, NetInv, [NetNext]_allvars, NEW c \in PeerIDs, NEW d \in PeerIDs, c # d,
           c \notin left', d \notin left', sock'[c] = sock[c], sock[c] \in Addrs,
           AddrOwner[sock[c]] = c, Lists(c, d)
    PROVE  Lists(c, d)'
<1>1. PICK a \in Addrs : a = sock[c] /\ a = sock'[c] /\ AddrOwner[a] = c
    OBVIOUS
<1>2. ASSUME NEW h \in Handlers, Joins(h, a)', At(h, "send")', NEW m \in hs'[h].snap,
             peer'[m].id = d
      PROVE  Lists(c, d)'
    <2>1. Joins(h, sock[c])'
        BY <1>1, <1>2 DEF Joins, At, Is, Req
    <2> QED BY <1>2, <2>1 DEF Lists
<1>3. ASSUME NEW x \in down', Listing(x, a), NEW i \in x.body.peers, i.id = d
      PROVE  Lists(c, d)'
    <2>1. Listing(x, sock[c])'
        BY <1>1, <1>3 DEF Listing
    <2> QED BY <1>3, <2>1 DEF Lists
<1>4. ASSUME Arrived(a)', table'[c][d] # None  PROVE Lists(c, d)'
    <2>1. Arrived(sock[c])'
        BY <1>1, <1>4 DEF Arrived, Asked, Joins, Listing, At, Is, Req
    <2> QED BY <1>4, <2>1 DEF Lists, Knows
<1>5. ASSUME NEW h \in Handlers, Joins(h, a), At(h, "send"), NEW m \in hs[h].snap, peer[m].id = d
      PROVE  Lists(c, d)'
    BY <1>1, <1>2, <1>3, <1>5, SendingKept
<1>6. ASSUME NEW x \in down, Listing(x, a), NEW i \in x.body.peers, i.id = d
      PROVE  Lists(c, d)'
    BY <1>1, <1>3, <1>4, <1>6, ListKept
<1>7. ASSUME Arrived(a), Knows(c, d)  PROVE Lists(c, d)'
    BY <1>1, <1>4, <1>7, KnownKept
<1> QED BY <1>1, <1>5, <1>6, <1>7 DEF Lists

LEMMA OneListsNext ==
    ASSUME IndInv, NetInv, [NetNext]_allvars
    PROVE  OneLists'
<1> SUFFICES ASSUME NEW c \in Settled', NEW d \in Settled', NEW o \in RoomObjs, c # d,
                    Home(c)' = {o}, Home(d)' = {o}, ~Pending(sock[c])', ~Pending(sock[d])'
             PROVE  Lists(c, d)' \/ Lists(d, c)'
    BY DEF OneLists
<1>1. /\ c \in Settled /\ sock'[c] = sock[c] /\ c \in PeerIDs /\ c \notin left'
      /\ sock[c] \in Addrs /\ AddrOwner[sock[c]] = c
    BY SettledBefore
<1>2. /\ d \in Settled /\ sock'[d] = sock[d] /\ d \in PeerIDs /\ d \notin left'
      /\ sock[d] \in Addrs /\ AddrOwner[sock[d]] = d
    BY SettledBefore
<1>3. CASE Pending(sock[c])
    BY <1>1, <1>2, <1>3, ListTaken
<1>4. CASE Pending(sock[d])
    BY <1>1, <1>2, <1>4, ListTaken
<1>5. CASE ~Pending(sock[c]) /\ ~Pending(sock[d])
    <2>1. ASSUME NEW e \in Settled, e \in PeerIDs, e \notin left', ~Pending(sock[e]),
                 Home(e)' = {o}
          PROVE  Home(e) = {o}
        <3>1. up \subseteq Requests /\ RequestsOK /\ LeaversLeft
            BY DEF NetInv, RequestsOK
        <3>2. \A x \in RoomObjs : peers[x][e] # None => peers'[x][e] # None
            BY <2>1, <3>1, StaysRegistered
        <3>3. Home(e) \subseteq Home(e)'
            BY <3>2 DEF Home
        <3>4. Home(e) # {}
            BY <2>1, HomeNotEmpty DEF Home
        <3> QED BY <2>1, <3>3, <3>4
    <2>2. Home(c) = {o} /\ Home(d) = {o}
        BY <1>1, <1>2, <1>5, <2>1
    <2>3. Lists(c, d) \/ Lists(d, c)
        BY <1>1, <1>2, <1>5, <2>2 DEF NetInv, OneLists
    <2> QED BY <1>1, <1>2, <2>3, ListsKept
<1> QED BY <1>3, <1>4, <1>5

-----------------------------------------------------------------------------
(* The theorems                                                              *)

LEMMA NetInvInit == NetInit => NetInv
<1> SUFFICES ASSUME NetInit  PROVE NetInv
    OBVIOUS
<1>1. /\ up = {} /\ down = {} /\ \A h \in Handlers : At(h, "idle") /\ hs[h].snap = {}
      /\ \A m \in PeerObjs : peer[m] = None
      /\ \A c \in PeerIDs : sock[c] = None
    BY DEF NetInit, Init, Idle, At
<1>2. NetTypeOK
    BY DEF NetInit, NetTypeOK, Nobody
<1>3. \A c, d \in PeerIDs : ~Knows(c, d)
    BY DEF NetInit, Knows, Nobody
<1>4. RequestsOK /\ LeaversLeft /\ SocketsOK /\ OneListing
    BY <1>1 DEF RequestsOK, LeaversLeft, SocketsOK, OneListing, Asked, Joins
<1>5. HandlersKnow
    BY <1>1 DEF HandlersKnow, At
<1>6. PacketsOK /\ TablesOK /\ OneLists
    BY <1>1, <1>3 DEF PacketsOK, TablesOK, OneLists, Settled
<1> QED BY <1>2, <1>4, <1>5, <1>6 DEF NetInv

LEMMA NetInvNext ==
    ASSUME IndInv, NetInv, [NetNext]_allvars
    PROVE  NetInv'
    BY NetTypeNext, RequestsNext, SocketsNext, OneListingNext, HandlersNext, PacketsNext,
       TablesNext, OneListsNext DEF NetInv

\* The invariant of the composition, inductive with that of the server: where
\* each client's list has got to, and that handlers, packets and tables have no
\* other VIP for a client that stays than the one it is registered with.
THEOREM NetInvCorrect == NetSpec => []NetInv
<1>1. IndInv /\ NetInv /\ [NetNext]_allvars => NetInv'
    BY NetInvNext
<1> QED BY <1>1, NetInvInit, NetServerInv, PTL DEF NetSpec

\* Tables and VIPs are well-typed, and no client is in its own table.
THEOREM NetTypeCorrect == NetSpec => []NetTypeOK
<1>1. NetInv => NetTypeOK
    BY DEF NetInv
<1> QED BY <1>1, NetInvCorrect, PTL

\* When all is delivered nobody waits for a list, and every list has come.
LEMMA QuietArrived ==
    ASSUME Quiet, NEW a
    PROVE  ~Pending(a) /\ Arrived(a)
    BY DEF Quiet, Pending, Arrived, Asked, Joins

\* Of two clients registered in one room, and nowhere else, at least one knows
\* the other when all is delivered, in whatever order the joins ran and the
\* packets arrived.
THEOREM OneKnowsOtherCorrect == NetSpec => []OneKnowsOther
<1>1. ASSUME NetInv, Quiet, NEW c \in Settled, NEW d \in Settled, NEW o \in RoomObjs,
             c # d, Home(c) = {o}, Home(d) = {o}
      PROVE  Knows(c, d) \/ Knows(d, c)
    <2>1. Lists(c, d) \/ Lists(d, c)
        BY <1>1, QuietArrived DEF NetInv, OneLists
    <2>2. ASSUME NEW e, NEW f, Lists(e, f)  PROVE Knows(e, f)
        BY <1>1, <2>2 DEF Lists, Quiet, Joins
    <2> QED BY <2>1, <2>2
<1>2. NetInv => OneKnowsOther
    BY <1>1 DEF OneKnowsOther
<1> QED BY <1>2, NetInvCorrect, PTL

\* When all is delivered a client that stays has configured the VIP it is
\* registered with, and its peers have no other for it.
THEOREM VIPAgreedCorrect == NetSpec => []VIPAgreed
<1>1. ASSUME NetInv, Quiet, NEW c \in Settled
      PROVE  /\ own[c] \in RegisteredVIPs(c)
             /\ \A d \in PeerIDs : Knows(d, c) => table[d][c].vip \in RegisteredVIPs(c)
    <2>1. c \in PeerIDs /\ c \notin left /\ Arrived(sock[c])
        BY <1>1, QuietArrived DEF Settled
    <2> QED BY <1>1, <2>1 DEF NetInv, TablesOK, VIPOf
<1>2. NetInv => VIPAgreed
    BY <1>1 DEF VIPAgreed
<1> QED BY <1>2, NetInvCorrect, PTL

\* What the server is proved to keep it keeps behind a network that delays and
\* reorders: its types, a VIP of its own for each member of a room that it keeps,
\* none above the number of clients, and what the members were told of each other.
THEOREM ServerBehindNetwork ==
    NetSpec => /\ []TypeOK /\ []VIPUnique /\ []VIPDense /\ VIPStable
               /\ []MutualDiscovery /\ []VoiceTold
    BY NetImplementsServer, TypeCorrect, VIPsUnique, VIPsDense, VIPsStable, DiscoveryCorrect,
       VoiceCorrect, PTL

\* So does the directory that the server implements.
THEOREM DirectoryBehindNetwork == NetSpec => DirectoryImplemented
    BY NetImplementsServer, DirectoryCorrect, PTL

=============================================================================
