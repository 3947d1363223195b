----------------------------- MODULE NetBridge -----------------------------
(***************************************************************************)
(* The server together with the clients of one room and the network        *)
(* between them: what a client asks for is what its user does, and what it *)
(* knows of the others is what the server's packets, in the order they     *)
(* happen to arrive, made of its peer table (client/core/client.go,        *)
(* client/peer/manager.go).                                                *)
(*                                                                         *)
(* The network delays and reorders datagrams; a datagram for a socket that *)
(* has been closed is gone. A client that comes back uses a new socket.    *)
(*                                                                         *)
(* A table entry keeps the VIP and the voice flag of a peer; what is done  *)
(* with its endpoints is the matter of PeerChannels.                       *)
(***************************************************************************)
EXTENDS RoomServerInv

CONSTANTS
    Lobby,     \* the room all users enter
    Talkers,   \* the users that turn their voice on
    Leavers    \* the users that leave

NetKinds == {"JoinRoom", "PeerLeave", "PeerStatus"}

ASSUME LobbyAssumption == Lobby \in RoomIDs
ASSUME NetKindsAssumption == NetKinds \subseteq Kinds

VARIABLES
    up,      \* requests on their way to the server
    down,    \* packets on their way to the clients: [to, body]
    sock,    \* the socket of each client, None when it is not connected
    used,    \* the sockets that have been opened so far
    table,   \* peerMgr.peers of each client
    own,     \* peerMgr.self.VirtualIP of each client
    voiced,  \* history: the clients that turned the voice on; each does so once
    left     \* history: the clients that ever left the room

server == <<rooms, made, peers, peer, hs, scan, told>>
net == <<up, down>>
clients == <<sock, used, table, own, voiced, left>>
allvars == <<server, net, clients>>

\* What still reaches a socket: a datagram for one that was closed is gone.
Deliverable(packets, sockets) == {d \in packets : sockets[AddrOwner[d.to]] = d.to}

Entry == [vip: VIPs, voice: BOOLEAN]

\* No socket, and no entry.
ASSUME NilAssumption == None \notin Addrs \cup Entry

Nobody == [p \in PeerIDs |-> None]

\* The types of what the composition adds; no client is in its own table.
NetTypeOK ==
    /\ up \subseteq Requests
    /\ \A d \in down : d.to \in Addrs
    /\ sock \in [PeerIDs -> Addrs \cup {None}] /\ used \subseteq Addrs
    /\ table \in [PeerIDs -> [PeerIDs -> Entry \cup {None}]]
    /\ \A c \in PeerIDs : table[c][c] = None
    /\ own \in [PeerIDs -> VIPs \cup {0}]
    /\ voiced \subseteq PeerIDs /\ left \subseteq PeerIDs

NetInit ==
    /\ Init
    /\ up = {} /\ down = {}
    /\ sock = [c \in PeerIDs |-> None] /\ used = {}
    /\ table = [c \in PeerIDs |-> Nobody]
    /\ own = [c \in PeerIDs |-> 0]
    /\ voiced = {} /\ left = {}

-----------------------------------------------------------------------------
(* The clients' users.                                                     *)

\* Connect and JoinRoom: for the first time, after Disconnect, or after the
\* client died and was started again. Its table is empty.
Enter(c, a) ==
    /\ AddrOwner[a] = c /\ a \notin used
    /\ sock' = [sock EXCEPT ![c] = a] /\ used' = used \cup {a}
    /\ table' = [table EXCEPT ![c] = Nobody] /\ own' = [own EXCEPT ![c] = 0]
    /\ up' = up \cup {[kind |-> "JoinRoom", room |-> Lobby, id |-> c, from |-> a]}
    /\ down' = Deliverable(down, sock')
    /\ UNCHANGED <<server, voiced, left>>

\* Disconnect: LeaveRoom sends a PeerLeave and resets the table.
Disconnect(c) ==
    /\ c \in Leavers /\ sock[c] # None
    /\ sock' = [sock EXCEPT ![c] = None]
    /\ table' = [table EXCEPT ![c] = Nobody] /\ own' = [own EXCEPT ![c] = 0]
    /\ left' = left \cup {c}
    /\ up' = up \cup {[kind |-> "PeerLeave", room |-> Lobby, id |-> c]}
    /\ down' = Deliverable(down, sock')
    /\ UNCHANGED <<server, used, voiced>>

\* SendPeerStatus: the user turns the voice on.
SendPeerStatus(c) ==
    /\ c \in Talkers \ voiced /\ sock[c] # None
    /\ voiced' = voiced \cup {c}
    /\ up' = up \cup {[kind |-> "PeerStatus", room |-> Lobby, id |-> c, voice |-> TRUE]}
    /\ UNCHANGED <<server, down, sock, used, table, own, left>>

-----------------------------------------------------------------------------
(* The server.                                                             *)

\* Serve takes one packet off the socket and starts a handler for it.
Accept(h, m) ==
    /\ m \in up
    /\ Receive(h, m)
    /\ up' = up \ {m}
    /\ UNCHANGED <<down, clients>>

\* A packet for a room that does not exist is dropped.
Reject(m) ==
    /\ m \in up /\ m.kind # "JoinRoom" /\ rooms[m.room] = None
    /\ up' = up \ {m}
    /\ UNCHANGED <<server, down, clients>>

\* A step of a handler that sends nothing.
Compute(h) ==
    /\ \/ JoinKnown(h) \/ JoinNew(h) \/ GetPeer(h) \/ SetVoiceStatus(h)
       \/ Leave(h) \/ Snapshot(h) \/ LeaveCheckEmpty(h) \/ LeaveReclaim(h)
    /\ UNCHANGED <<net, clients>>

\* A handler's packets go out, with what they tell of a peer.
Send(h) ==
    \/ /\ JoinAnnounce(h)
       /\ down' = down \cup Deliverable(JoinPackets(h), sock)
       /\ UNCHANGED <<up, clients>>
    \/ /\ Broadcast(h)
       /\ down' = down \cup Deliverable(BroadcastPackets(h), sock)
       /\ UNCHANGED <<up, clients>>

-----------------------------------------------------------------------------
(* The clients' handlers. c is the client whose socket d was sent to.      *)

Takes(c, d, kind) ==
    /\ d \in down /\ d.to = sock[c] /\ d.body.kind = kind
    /\ down' = down \ {d}
    /\ UNCHANGED <<server, up, sock, used, voiced, left>>

EntryOf(i) == [vip |-> i.vip, voice |-> i.voice]

\* Mutant: its own entry is looked for among the first peers, by VIP.
handleRoomStatus_FirstIsSelf(c, d) ==
    /\ Takes(c, d, "RoomStatus")
    /\ own' = [own EXCEPT ![c] = VIPStart]
    /\ table' = [table EXCEPT ![c] = [p \in PeerIDs |->
                   IF p # c /\ \E i \in d.body.peers : i.id = p
                   THEN EntryOf(CHOOSE i \in d.body.peers : i.id = p) ELSE None]]

\* Mutant: its own entry goes to the table as well.
handleRoomStatus_SelfToo(c, d) ==
    /\ Takes(c, d, "RoomStatus")
    /\ own' = [own EXCEPT ![c] =
                 IF \E i \in d.body.peers : i.id = c
                 THEN (CHOOSE i \in d.body.peers : i.id = c).vip ELSE 0]
    /\ table' = [table EXCEPT ![c] = [p \in PeerIDs |->
                   IF \E i \in d.body.peers : i.id = p
                   THEN EntryOf(CHOOSE i \in d.body.peers : i.id = p) ELSE None]]

\* handleRoomStatus: Reset, then its own entry to self, the others to the table.
handleRoomStatus(c, d) ==
    /\ Takes(c, d, "RoomStatus")
    /\ own' = [own EXCEPT ![c] =
                 IF \E i \in d.body.peers : i.id = c
                 THEN (CHOOSE i \in d.body.peers : i.id = c).vip ELSE 0]
    /\ table' = [table EXCEPT ![c] = [p \in PeerIDs |->
                   IF p # c /\ \E i \in d.body.peers : i.id = p
                   THEN EntryOf(CHOOSE i \in d.body.peers : i.id = p) ELSE None]]

\* handlePeerAddress: Upsert.
handlePeerAddress(c, d) ==
    /\ Takes(c, d, "PeerAddress")
    /\ table' = [table EXCEPT ![c][d.body.id] = EntryOf(d.body)]
    /\ UNCHANGED own

\* handlePeerLeave: Remove.
handlePeerLeave(c, d) ==
    /\ Takes(c, d, "PeerLeave")
    /\ table' = [table EXCEPT ![c][d.body.id] = None]
    /\ UNCHANGED own

\* handlePeerStatus: SetVoiceStatus of a peer that is known, and not itself.
handlePeerStatus(c, d) ==
    /\ Takes(c, d, "PeerStatus")
    /\ table' = IF d.body.id = c \/ table[c][d.body.id] = None THEN table
                ELSE [table EXCEPT ![c][d.body.id].voice = d.body.voice]
    /\ UNCHANGED own

Handle(c, d) ==
    \/ handleRoomStatus(c, d) \/ handlePeerAddress(c, d)
    \/ handlePeerLeave(c, d) \/ handlePeerStatus(c, d)

-----------------------------------------------------------------------------
ServerStep(h) == Compute(h) \/ Send(h)

NetNext ==
    \/ \E c \in PeerIDs : Disconnect(c) \/ SendPeerStatus(c)
    \/ \E c \in PeerIDs, a \in Addrs : Enter(c, a)
    \/ \E m \in up : Reject(m) \/ \E h \in Handlers : Accept(h, m)
    \/ \E h \in Handlers : ServerStep(h)
    \/ \E c \in PeerIDs, d \in down : Handle(c, d)

NetSpec == NetInit /\ [][NetNext]_allvars

-----------------------------------------------------------------------------
(* Properties *)

\* Nothing is on its way and no handler runs.
Quiet == up = {} /\ down = {} /\ \A h \in Handlers : At(h, "idle")

\* The clients that entered the room and have never left it.
Settled == {c \in PeerIDs : sock[c] # None /\ c \notin left}

Knows(c, d) == table[c][d] # None

\* The room objects a client is registered in, and its VIPs there: the room may
\* be unlisted under its members, and who joins again is in another object then.
Home(c) == {o \in RoomObjs : peers[o][c] # None}
RegisteredVIPs(c) == {peer[peers[o][c]].vip : o \in Home(c)}

\* Of two clients whose one registration is in the same room object, at least
\* one knows the other, in whatever order their joins ran and the packets
\* arrived, so that one of them will punch (client.go:821, client.go:844).
OneKnowsOther ==
    Quiet => \A c, d \in Settled, o \in RoomObjs :
        c # d /\ Home(c) = {o} /\ Home(d) = {o} => Knows(c, d) \/ Knows(d, c)

\* When all is delivered a settled client is registered and configures the VIP
\* it is registered with, and its peers have no other for it.
VIPAgreed ==
    Quiet => \A c \in Settled :
        /\ own[c] \in RegisteredVIPs(c)
        /\ \A d \in PeerIDs : Knows(d, c) => table[d][c].vip \in RegisteredVIPs(c)

\* "broadcast/multicast are distributed to all room members" (README.md:13):
\* when all is delivered the table, which a broadcast is sent by
\* (client.go:492), holds every other member.
ViewsAgree ==
    Quiet => \A c, d \in Settled : c # d => Knows(c, d)

-----------------------------------------------------------------------------
(* The inductive invariant. A client that never left is never removed, so   *)
(* that what a packet, a handler or a table says of its VIP stays right. For *)
(* each socket there is one JoinRoom, and of it one RoomStatus at most.      *)

Joins(h, a) == ~At(h, "idle") /\ Is(h, "JoinRoom") /\ Req(h).from = a
Asked(a) == \E m \in up : m.kind = "JoinRoom" /\ m.from = a
Listing(x, a) == x.to = a /\ x.body.kind = "RoomStatus"

\* The socket's JoinRoom has not been handled up to Room.PeerList.
Pending(a) == Asked(a) \/ \E h \in Handlers : Joins(h, a) /\ ~At(h, "send")

\* The list its JoinRoom asked for has come to the client.
Arrived(a) ==
    /\ ~Asked(a) /\ \A h \in Handlers : ~Joins(h, a)
    /\ \A x \in down : ~Listing(x, a)

\* Only what the clients send is on its way or worked on.
RequestsOK ==
    /\ \A m \in up : m \in Requests /\ m.kind \in NetKinds /\ m.room = Lobby
    /\ \A h \in Handlers : ~At(h, "idle") => Req(h).kind \in NetKinds

\* Who is said to leave has left.
LeaversLeft ==
    /\ \A m \in up : m.kind = "PeerLeave" => m.id \in left
    /\ \A h \in Handlers : ~At(h, "idle") /\ Is(h, "PeerLeave") => Req(h).id \in left

\* A socket belongs to the client that opened it, wherever its address is kept.
SocketsOK ==
    /\ \A c \in PeerIDs : sock[c] # None => AddrOwner[sock[c]] = c /\ sock[c] \in used
    /\ \A a \in Addrs : Asked(a) => a \in used
    /\ \A h \in Handlers, a \in Addrs : Joins(h, a) => a \in used /\ AddrOwner[a] = Req(h).id
    /\ \A m \in PeerObjs : peer[m] # None => AddrOwner[peer[m].addr] = peer[m].id
    /\ \A x \in down : x.to \in Addrs /\ sock[AddrOwner[x.to]] = x.to

\* There is one list for each socket, wherever it has got to.
OneListing ==
    \A a \in Addrs :
        /\ Asked(a) => \A h \in Handlers : ~Joins(h, a)
        /\ \A g, h \in Handlers : Joins(g, a) /\ Joins(h, a) => g = h
        /\ Asked(a) \/ (\E h \in Handlers : Joins(h, a)) => \A x \in down : ~Listing(x, a)
        /\ \A x, y \in down : Listing(x, a) /\ Listing(y, a) => x = y

\* vip is a host number, and that of the client c unless c has left.
VIPOf(c, vip) == c \in PeerIDs /\ vip \in VIPs /\ (c \notin left => vip \in RegisteredVIPs(c))

\* What the handlers know of the members.
HandlersKnow ==
    /\ \A h \in Handlers : \A m \in hs[h].snap :
          /\ peer[m].vip \in VIPs
          /\ peer[m].id \notin left => \E o \in RoomObjs : peers[o][peer[m].id] = m
    /\ \A h \in Handlers :
          (At(h, "snapshot") \/ At(h, "send")) /\ Is(h, "JoinRoom") =>
              LET m == peers[hs[h].room][Req(h).id] IN
              /\ VIPOf(Req(h).id, hs[h].vip)
              /\ Req(h).id \notin left => m # None /\ (At(h, "send") => m \in hs[h].snap)

\* What the packets say.
BodyOK(a, b) ==
    CASE b.kind = "RoomStatus" ->
            /\ \A i \in b.peers : VIPOf(i.id, i.vip) /\ i.voice \in BOOLEAN
            /\ AddrOwner[a] \notin left => \E i \in b.peers : i.id = AddrOwner[a]
      [] b.kind = "PeerAddress" ->
            VIPOf(b.id, b.vip) /\ b.voice \in BOOLEAN /\ b.id # AddrOwner[a]
      [] b.kind = "PeerLeave" -> b.id \in left
      [] b.kind = "PeerStatus" -> b.id \in PeerIDs /\ b.voice \in BOOLEAN
      [] OTHER -> FALSE

PacketsOK == \A x \in down : BodyOK(x.to, x.body)

\* What the clients know.
TablesOK ==
    /\ \A c, d \in PeerIDs : Knows(c, d) => VIPOf(d, table[c][d].vip)
    /\ \A c \in Settled : Arrived(sock[c]) => VIPOf(c, own[c])

\* The list the client c asked for, wherever it has got to, names d.
Lists(c, d) ==
    \/ \E h \in Handlers : /\ Joins(h, sock[c]) /\ At(h, "send")
                           /\ \E m \in hs[h].snap : peer[m].id = d
    \/ \E x \in down : Listing(x, sock[c]) /\ \E i \in x.body.peers : i.id = d
    \/ Arrived(sock[c]) /\ Knows(c, d)

\* Of two members of a room the one that asked later for the list is told of the
\* other by it.
OneLists ==
    \A c, d \in Settled, o \in RoomObjs :
        c # d /\ Home(c) = {o} /\ Home(d) = {o} /\ ~Pending(sock[c]) /\ ~Pending(sock[d])
            => Lists(c, d) \/ Lists(d, c)

NetInv ==
    /\ NetTypeOK /\ RequestsOK /\ LeaversLeft /\ SocketsOK /\ OneListing
    /\ HandlersKnow /\ PacketsOK /\ TablesOK /\ OneLists

=============================================================================
