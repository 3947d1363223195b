----------------------------- MODULE RoomServer -----------------------------
(***************************************************************************)
(* The NetBridge server: the room registry (internal/room), the signalling *)
(* handlers (internal/signaling), the relay (internal/relay) and the       *)
(* timeout scan.  Server.Serve starts one goroutine per UDP packet, so any *)
(* number of handlers run at once and each of them takes and drops         *)
(* Manager.mu and Room.mu several times.  An action is one such critical   *)
(* section; what a handler read in an earlier one it keeps in its local    *)
(* variables, as the goroutine does.                                       *)
(*                                                                         *)
(* Room and Peer values are heap objects (RoomObjs, PeerObjs), because a   *)
(* handler holds pointers to them after they left Manager.rooms or         *)
(* Room.peers.  Time is abstracted to one bit: an object is stale when its *)
(* lastSeen is older than PeerTimeout.                                     *)
(***************************************************************************)
EXTENDS Naturals, FiniteSets

CONSTANTS
    PeerIDs,     \* client identities (persistent uuids)
    RoomIDs,     \* room names
    Addrs,       \* public UDP endpoints
    AddrOwner,   \* the client whose socket is behind an endpoint
    RoomObjs,    \* *Room objects; bounds how many rooms are ever created
    PeerObjs,    \* *Peer objects; bounds how many registrations are made
    Handlers,    \* goroutine slots; bounds how many packets are in progress
    Kinds,       \* the packet types that arrive; "Tick": time passes for scanLoop
    VIPStart,    \* lowest host number handed out
    VIPEnd,      \* exclusive upper end of the host numbers (0xFFFF)
    None         \* nil

EventKinds == {"JoinRoom", "PeerLeave", "Chat", "PeerStatus", "PeerMetrics",
                "Ping", "RelayData", "Compact", "Tick"}

ASSUME KindsAssumption == Kinds \subseteq EventKinds
ASSUME OwnerAssumption == AddrOwner \in [Addrs -> PeerIDs]
ASSUME VIPAssumption == VIPStart \in Nat /\ VIPEnd \in Nat
\* Room.allocVIPLocked falls back to a VIP in use when the pool is exhausted;
\* the pool of 65533 host numbers is assumed to exceed the clients.
ASSUME PoolAssumption == /\ IsFiniteSet(PeerIDs)
                         /\ Cardinality(PeerIDs) <= VIPEnd - VIPStart

VIPs == VIPStart .. (VIPEnd - 1)

VARIABLES
    rooms,   \* Manager.rooms : RoomIDs -> RoomObjs or None
    made,    \* the room objects created so far
    peers,   \* Room.peers of every room object : PeerIDs -> PeerObjs or None
    peer,    \* the heap of Peer records; None is not yet allocated
    hs,      \* the local variables of every handler goroutine
    scan,    \* the local variables of the scanLoop goroutine
    told     \* history: <<p, m, v>>, client p was sent Peer object m with VoiceOn = v

vars == <<rooms, made, peers, peer, hs, scan, told>>

PeerRec == [id: PeerIDs, addr: Addrs, vip: VIPs \cup {0}, voice: BOOLEAN, stale: BOOLEAN]

\* nil is no pointer, no Peer and no host number.
ASSUME NoneAssumption == None \notin PeerObjs \cup RoomObjs \cup RoomIDs \cup PeerRec \cup VIPs

(***************************************************************************)
(* The packets that may arrive.  JoinRoom, Ping and compact frames use the *)
(* address they came from; a client sends from its own sockets.            *)
(***************************************************************************)
Requests ==
    LET own(S) == {m \in S : AddrOwner[m.from] = m.id} IN
    { m \in own([kind: {"JoinRoom", "Ping"}, room: RoomIDs, id: PeerIDs, from: Addrs])
            \cup [kind: {"PeerLeave", "Chat", "PeerMetrics"}, room: RoomIDs, id: PeerIDs]
            \cup [kind: {"PeerStatus"}, room: RoomIDs, id: PeerIDs, voice: BOOLEAN]
            \cup [kind: {"RelayData"}, room: RoomIDs, id: PeerIDs, vip: VIPs]
            \cup [kind: {"Compact"}, from: Addrs, vip: VIPs] : m.kind \in Kinds }

Idle == [pc |-> "idle", req |-> None, room |-> None, peer |-> None,
         vip |-> None, snap |-> {}]
ScanIdle == [pc |-> "idle", todo |-> {}, visit |-> None, empty |-> {},
             results |-> {}, current |-> None, room |-> None]

Init ==
    /\ rooms = [r \in RoomIDs |-> None]
    /\ made = {}
    /\ peers = [o \in RoomObjs |-> [p \in PeerIDs |-> None]]
    /\ peer = [o \in PeerObjs |-> None]
    /\ hs = [h \in Handlers |-> Idle]
    /\ scan = ScanIdle
    /\ told = {}

-----------------------------------------------------------------------------
(* Room and Manager                                                        *)

\* Room.PeerList
Members(o) == {peers[o][p] : p \in PeerIDs} \ {None}

\* Room.IsEmpty
IsEmpty(o) == \A p \in PeerIDs : peers[o][p] = None

UsedVIPs(o) == {peer[m].vip : m \in Members(o)}

\* Mutant: hands out numbers from one below the start of the pool.
AllocVIP_FromOne(o) ==
    LET free == ((VIPStart - 1) .. VIPEnd) \ UsedVIPs(o) IN
    CHOOSE v \in free : \A w \in free : v <= w

\* Mutant: numbers by head count, which forgets that a lower one may be free.
AllocVIP_Count(o) == VIPStart + Cardinality(Members(o))

\* Mutant: one above the highest in use, so that numbers climb.
AllocVIP_Climb(o) ==
    IF Members(o) = {} THEN VIPStart
    ELSE 1 + CHOOSE v \in UsedVIPs(o) : \A w \in UsedVIPs(o) : v >= w

\* Room.allocVIPLocked: the lowest free host number, VIPStart if there is none.
AllocVIP(o) ==
    LET free == VIPs \ UsedVIPs(o) IN
    IF free = {} THEN VIPStart ELSE CHOOSE v \in free : \A w \in free : v <= w

\* Mutant: looks the VIP up without regard to the room.
PeersByVIP_AnyRoom(o, v) ==
    UNION {{m \in Members(x) : peer[m].vip = v} : x \in RoomObjs}

\* Room.GetPeerByVIP: a map iteration, so any of the peers that match.
PeersByVIP(o, v) == {m \in Members(o) : peer[m].vip = v}

\* Manager.LookupByAddr: a map iteration, so any of the rooms that match.
RoomsByAddr(a) ==
    {rooms[r] : r \in {r \in RoomIDs :
        rooms[r] # None /\ \E m \in Members(rooms[r]) : peer[m].addr = a}}

\* ScanTimeout holds Manager.mu from the first room it visits to the deletion.
MgrFree == scan.pc # "sweep"

At(h, pc) == hs[h].pc = pc
Req(h) == hs[h].req
Is(h, kind) == Req(h).kind = kind

\* The goroutine returns.
Done(h) == hs' = [hs EXCEPT ![h] = Idle]
Goto(h, pc) == hs' = [hs EXCEPT ![h].pc = pc]

-----------------------------------------------------------------------------
(* handleJoinRoom                                                          *)

\* peer.New, then Manager.GetOrCreate
JoinGetRoom(h, m) ==
    /\ m.kind = "JoinRoom" /\ At(h, "idle") /\ MgrFree
    /\ \E o \in RoomObjs, p \in PeerObjs :
          /\ IF rooms[m.room] # None
             THEN o = rooms[m.room] /\ UNCHANGED <<rooms, made>>
             ELSE /\ o \notin made
                  /\ made' = made \cup {o}
                  /\ rooms' = [rooms EXCEPT ![m.room] = o]
          /\ peer[p] = None
          /\ peer' = [peer EXCEPT ![p] = [id |-> m.id, addr |-> m.from, vip |-> 0,
                                          voice |-> FALSE, stale |-> FALSE]]
          /\ hs' = [hs EXCEPT ![h] = [Idle EXCEPT !.pc = "join", !.req = m,
                                                  !.room = o, !.peer = p]]
    /\ UNCHANGED <<peers, scan, told>>

\* Mutant: a reconnecting peer is given a new VIP.
JoinKnown_NewVIP(h) ==
    LET o == hs[h].room  m == peers[o][Req(h).id]  v == AllocVIP(o) IN
    /\ At(h, "join") /\ m # None
    /\ peer' = [peer EXCEPT ![m].addr = Req(h).from, ![m].vip = v, ![m].stale = FALSE]
    /\ hs' = [hs EXCEPT ![h].pc = "snapshot", ![h].vip = v]
    /\ UNCHANGED <<rooms, made, peers, scan, told>>

\* Room.Join of a peer the room knows: new address, Touch, same VIP.
JoinKnown(h) ==
    LET m == peers[hs[h].room][Req(h).id] IN
    /\ At(h, "join") /\ m # None
    /\ peer' = [peer EXCEPT ![m].addr = Req(h).from, ![m].stale = FALSE]
    /\ hs' = [hs EXCEPT ![h].pc = "snapshot", ![h].vip = peer[m].vip]
    /\ UNCHANGED <<rooms, made, peers, scan, told>>

\* Mutant: the list that will be announced to is read in a critical section of
\* its own, before the insertion.
JoinNew_ListFirst(h) ==
    LET o == hs[h].room  v == AllocVIP(o) IN
    /\ At(h, "join") /\ peers[o][Req(h).id] = None
    /\ \/ /\ hs[h].vip = 0
          /\ hs' = [hs EXCEPT ![h].vip = v, ![h].snap = Members(o)]
          /\ UNCHANGED <<peer, peers>>
       \/ /\ hs[h].vip # 0
          /\ peer' = [peer EXCEPT ![hs[h].peer].vip = v]
          /\ peers' = [peers EXCEPT ![o][Req(h).id] = hs[h].peer]
          /\ hs' = [hs EXCEPT ![h].pc = "send", ![h].vip = v]
    /\ UNCHANGED <<rooms, made, scan, told>>

\* Room.Join of a new peer: allocate the VIP and insert, under one lock.
JoinNew(h) ==
    LET o == hs[h].room  v == AllocVIP(o) IN
    /\ At(h, "join") /\ peers[o][Req(h).id] = None
    /\ peer' = [peer EXCEPT ![hs[h].peer].vip = v]
    /\ peers' = [peers EXCEPT ![o][Req(h).id] = hs[h].peer]
    /\ hs' = [hs EXCEPT ![h].pc = "snapshot", ![h].vip = v]
    /\ UNCHANGED <<rooms, made, scan, told>>

\* The packets handleJoinRoom sends: the room's state to the newcomer and the
\* newcomer's endpoint to the others.  Addresses and flags are read through the
\* pointers of the snapshot when the packet is built.
Info(m) == [id |-> peer[m].id, vip |-> peer[m].vip, addr |-> peer[m].addr,
            voice |-> peer[m].voice]
JoinPackets(h) ==
    LET q == Req(h) IN
    { [to |-> q.from,
       body |-> [kind |-> "RoomStatus", room |-> q.room, id |-> q.id,
                 peers |-> {Info(m) : m \in hs[h].snap}, vip |-> hs[h].vip]] } \cup
    { [to |-> peer[m].addr,
       body |-> [kind |-> "PeerAddress", room |-> q.room, id |-> q.id,
                 vip |-> hs[h].vip, addr |-> q.from, voice |-> peer[hs[h].peer].voice]] :
       m \in {m \in hs[h].snap : peer[m].id # q.id} }

\* Mutant: the list entries leave out the voice flag.
JoinAnnounce_NoVoice(h) ==
    /\ At(h, "send") /\ Is(h, "JoinRoom")
    /\ told' = told \cup {<<Req(h).id, m, FALSE>> : m \in hs[h].snap} \cup
               {<<peer[m].id, hs[h].peer, FALSE>> :
                    m \in {m \in hs[h].snap : peer[m].id # Req(h).id}}
    /\ Done(h)
    /\ UNCHANGED <<rooms, made, peers, peer, scan>>

\* Sends JoinPackets(h) and returns.
JoinAnnounce(h) ==
    /\ At(h, "send") /\ Is(h, "JoinRoom")
    /\ told' = told \cup {<<Req(h).id, m, peer[m].voice>> : m \in hs[h].snap} \cup
               {<<peer[m].id, hs[h].peer, peer[hs[h].peer].voice>> :
                    m \in {m \in hs[h].snap : peer[m].id # Req(h).id}}
    /\ Done(h)
    /\ UNCHANGED <<rooms, made, peers, peer, scan>>

-----------------------------------------------------------------------------
(* The other handlers.  Each begins with Manager.Get and drops the packet  *)
(* when the room does not exist.                                           *)

AfterGet == [PeerLeave |-> "leave", Chat |-> "snapshot", PeerStatus |-> "getpeer",
             PeerMetrics |-> "getpeer", Ping |-> "getpeer", RelayData |-> "route"]

GetRoom(h, m) ==
    /\ m.kind \in DOMAIN AfterGet /\ At(h, "idle") /\ MgrFree
    /\ rooms[m.room] # None
    /\ hs' = [hs EXCEPT ![h] = [Idle EXCEPT !.pc = AfterGet[m.kind], !.req = m,
                                            !.room = rooms[m.room]]]
    /\ UNCHANGED <<rooms, made, peers, peer, scan, told>>

\* Room.GetPeer in handlePing, handlePeerStatus and handlePeerMetrics: an
\* unknown sender is ignored.
GetPeer(h) ==
    LET m == peers[hs[h].room][Req(h).id] IN
    /\ At(h, "getpeer")
    /\ IF m = None
       THEN Done(h)
       ELSE hs' = [hs EXCEPT ![h].peer = m,
                             ![h].pc = IF Is(h, "PeerMetrics") THEN "snapshot" ELSE "update"]
    /\ UNCHANGED <<rooms, made, peers, peer, scan, told>>

\* Peer.Touch in handlePing, which then answers with a Pong and returns.
TouchPeer(h) ==
    /\ At(h, "update") /\ Is(h, "Ping")
    /\ peer' = [peer EXCEPT ![hs[h].peer].stale = FALSE]
    /\ Done(h)
    /\ UNCHANGED <<rooms, made, peers, scan, told>>

\* Peer.SetVoiceStatus in handlePeerStatus, which then broadcasts.
SetVoiceStatus(h) ==
    /\ At(h, "update") /\ Is(h, "PeerStatus")
    /\ peer' = [peer EXCEPT ![hs[h].peer].voice = Req(h).voice]
    /\ Goto(h, "snapshot")
    /\ UNCHANGED <<rooms, made, peers, scan, told>>

\* Room.Leave in handlePeerLeave; removing an absent peer is not an error.
Leave(h) ==
    /\ At(h, "leave")
    /\ peers' = [peers EXCEPT ![hs[h].room][Req(h).id] = None]
    /\ Goto(h, "snapshot")
    /\ UNCHANGED <<rooms, made, peer, scan, told>>

\* Room.PeerList, whose result the handler then sends to.
Snapshot(h) ==
    /\ At(h, "snapshot")
    /\ hs' = [hs EXCEPT ![h].snap = Members(hs[h].room), ![h].pc = "send"]
    /\ UNCHANGED <<rooms, made, peers, peer, scan, told>>

\* What a handler at "send" broadcasts: the request itself.  A Chat goes back to
\* its sender as well; a PeerLeave's sender is no longer expected in the list.
BroadcastPackets(h) ==
    { [to |-> peer[m].addr, body |-> Req(h)] :
        m \in {m \in hs[h].snap :
                 Req(h).kind \in {"Chat", "PeerLeave"} \/ peer[m].id # Req(h).id} }

Broadcast(h) ==
    /\ At(h, "send") /\ ~Is(h, "JoinRoom")
    /\ IF Is(h, "PeerLeave") THEN Goto(h, "checkempty") ELSE Done(h)
    /\ told' = IF Is(h, "PeerStatus")
               THEN told \cup {<<peer[m].id, hs[h].peer, Req(h).voice>> :
                        m \in {m \in hs[h].snap : peer[m].id # Req(h).id}}
               ELSE told
    /\ UNCHANGED <<rooms, made, peers, peer, scan>>

\* handlePeerLeave's IsEmpty test; Manager.Remove follows in another section.
LeaveCheckEmpty(h) ==
    /\ At(h, "checkempty")
    /\ IF IsEmpty(hs[h].room) THEN Goto(h, "reclaim") ELSE Done(h)
    /\ UNCHANGED <<rooms, made, peers, peer, scan, told>>

\* Manager.Remove, by room name.
LeaveReclaim(h) ==
    /\ At(h, "reclaim") /\ MgrFree
    /\ rooms' = [rooms EXCEPT ![Req(h).room] = None]
    /\ Done(h)
    /\ UNCHANGED <<made, peers, peer, scan, told>>

-----------------------------------------------------------------------------
(* The relay.  A compact frame names no room: the sender's address does.   *)

CompactLookup(h, m) ==
    /\ m.kind = "Compact" /\ At(h, "idle") /\ MgrFree
    /\ \E o \in RoomsByAddr(m.from) :
          hs' = [hs EXCEPT ![h] = [Idle EXCEPT !.pc = "route", !.req = m, !.room = o]]
    /\ UNCHANGED <<rooms, made, peers, peer, scan, told>>

\* Room.GetPeerByVIP; a frame for an unknown VIP is dropped.
Route(h) ==
    LET targets == PeersByVIP(hs[h].room, Req(h).vip) IN
    /\ At(h, "route")
    /\ \/ targets = {} /\ Done(h)
       \/ \E m \in targets :
             hs' = [hs EXCEPT ![h].peer = m, ![h].pc = "forward"]
    /\ UNCHANGED <<rooms, made, peers, peer, scan, told>>

\* The frame goes unchanged to the address the target has by now.
ForwardPackets(h) == {[to |-> peer[hs[h].peer].addr, body |-> Req(h)]}

Forward(h) ==
    /\ At(h, "forward")
    /\ Done(h)
    /\ UNCHANGED <<rooms, made, peers, peer, scan, told>>

\* A packet that names no room, an unknown room or an unknown address.
Ignore(h) ==
    /\ At(h, "idle")
    /\ UNCHANGED vars

-----------------------------------------------------------------------------
(* scanLoop: Manager.ScanTimeout, then one PeerLeave broadcast per result. *)

ScanBegin ==
    /\ "Tick" \in Kinds /\ scan.pc = "idle"
    /\ \E r \in RoomIDs : rooms[r] # None
    /\ scan' = [scan EXCEPT !.pc = "sweep", !.todo = {r \in RoomIDs : rooms[r] # None}]
    /\ UNCHANGED <<rooms, made, peers, peer, hs, told>>

\* Mutant: looks at the timeouts but removes nobody.
ScanRoom_KeepAll(r) ==
    /\ scan.pc = "sweep" /\ scan.visit = None /\ r \in scan.todo
    /\ scan' = [scan EXCEPT !.visit = r]
    /\ UNCHANGED <<rooms, made, peers, peer, hs, told>>

\* Room.ScanTimeout: every timed-out peer of one room, under that room's lock.
ScanRoom(r) ==
    LET o == rooms[r]
        timedOut == {p \in PeerIDs : peers[o][p] # None /\ peer[peers[o][p]].stale} IN
    /\ scan.pc = "sweep" /\ scan.visit = None /\ r \in scan.todo
    /\ peers' = [peers EXCEPT ![o] = [p \in PeerIDs |-> IF p \in timedOut THEN None ELSE @[p]]]
    /\ scan' = [scan EXCEPT !.visit = r,
                            !.results = @ \cup {<<r, peers[o][p]>> : p \in timedOut}]
    /\ UNCHANGED <<rooms, made, peer, hs, told>>

\* Mutant: never collects the empty rooms.
ScanCheckEmpty_Keep ==
    /\ scan.pc = "sweep" /\ scan.visit # None
    /\ scan' = [scan EXCEPT !.visit = None, !.todo = @ \ {scan.visit}]
    /\ UNCHANGED <<rooms, made, peers, peer, hs, told>>

\* Room.IsEmpty takes the room's lock again.
ScanCheckEmpty ==
    LET r == scan.visit IN
    /\ scan.pc = "sweep" /\ r # None
    /\ scan' = [scan EXCEPT !.visit = None, !.todo = @ \ {r},
                            !.empty = IF IsEmpty(rooms[r]) THEN @ \cup {r} ELSE @]
    /\ UNCHANGED <<rooms, made, peers, peer, hs, told>>

\* The results still to be announced; the loop waits for the next tick after
\* the last one.
Report(rest) ==
    scan' = IF rest = {} THEN ScanIdle
            ELSE [ScanIdle EXCEPT !.pc = "report", !.results = rest]

\* Mutant: returns without Manager.mu.Unlock when nobody timed out.
ScanReclaim_KeepLock ==
    /\ scan.pc = "sweep" /\ scan.visit = None /\ scan.todo = {} /\ scan.results # {}
    /\ rooms' = [r \in RoomIDs |-> IF r \in scan.empty THEN None ELSE rooms[r]]
    /\ Report(scan.results)
    /\ UNCHANGED <<made, peers, peer, hs, told>>

\* Deletes the empty rooms and gives Manager.mu back.
ScanReclaim ==
    /\ scan.pc = "sweep" /\ scan.visit = None /\ scan.todo = {}
    /\ rooms' = [r \in RoomIDs |-> IF r \in scan.empty THEN None ELSE rooms[r]]
    /\ Report(scan.results)
    /\ UNCHANGED <<made, peers, peer, hs, told>>

\* Manager.Get for one result: the room may be gone, or another by now.
ScanGetRoom(x) ==
    /\ scan.pc = "report" /\ x \in scan.results
    /\ IF rooms[x[1]] = None
       THEN Report(scan.results \ {x})
       ELSE scan' = [scan EXCEPT !.pc = "notify", !.current = x, !.room = rooms[x[1]]]
    /\ UNCHANGED <<rooms, made, peers, peer, hs, told>>

\* Room.PeerList and the PeerLeave packets.
ScanPackets ==
    { [to |-> peer[m].addr,
       body |-> [kind |-> "PeerLeave", room |-> scan.current[1],
                 id |-> peer[scan.current[2]].id]] : m \in Members(scan.room) }

ScanNotify ==
    /\ scan.pc = "notify"
    /\ Report(scan.results \ {scan.current})
    /\ UNCHANGED <<rooms, made, peers, peer, hs, told>>

\* PeerTimeout passes without a Touch of m.
Expire(m) ==
    /\ "Tick" \in Kinds
    /\ \E o \in RoomObjs : m \in Members(o)
    /\ ~peer[m].stale
    /\ peer' = [peer EXCEPT ![m].stale = TRUE]
    /\ UNCHANGED <<rooms, made, peers, hs, scan, told>>

-----------------------------------------------------------------------------
Receive(h, m) == JoinGetRoom(h, m) \/ GetRoom(h, m) \/ CompactLookup(h, m)

Proceed(h) ==
    \/ JoinKnown(h) \/ JoinNew(h) \/ JoinAnnounce(h)
    \/ GetPeer(h) \/ TouchPeer(h) \/ SetVoiceStatus(h)
    \/ Leave(h) \/ Snapshot(h) \/ Broadcast(h)
    \/ LeaveCheckEmpty(h) \/ LeaveReclaim(h)
    \/ Route(h) \/ Forward(h)

Scan ==
    \/ ScanBegin \/ ScanCheckEmpty \/ ScanReclaim \/ ScanNotify
    \/ \E r \in RoomIDs : ScanRoom(r)
    \/ \E x \in scan.results : ScanGetRoom(x)

Next ==
    \/ \E h \in Handlers : Ignore(h) \/ Proceed(h)
    \/ \E h \in Handlers, m \in Requests : Receive(h, m)
    \/ Scan
    \/ \E m \in PeerObjs : Expire(m)

Spec == Init /\ [][Next]_vars

\* Goroutines are scheduled, and a waiter gets a sync.RWMutex in the end however
\* often others take it: strong fairness for a handler, whose Manager.Remove
\* waits for Manager.mu.  The scanning goroutine's ticker fires for ever.
FairSpec == Spec /\ (\A h \in Handlers : SF_vars(Proceed(h))) /\ WF_vars(Scan)

-----------------------------------------------------------------------------
(* Properties *)

HandlerRec ==
    [pc: {"idle", "join", "snapshot", "send", "leave", "getpeer", "update",
          "checkempty", "reclaim", "route", "forward"},
     req: Requests \cup {None}, room: RoomObjs \cup {None},
     peer: PeerObjs \cup {None}, vip: VIPs \cup {None}, snap: SUBSET PeerObjs]

ScanRec ==
    [pc: {"idle", "sweep", "report", "notify"}, todo: SUBSET RoomIDs,
     visit: RoomIDs \cup {None}, empty: SUBSET RoomIDs,
     results: SUBSET (RoomIDs \X PeerObjs),
     current: (RoomIDs \X PeerObjs) \cup {None}, room: RoomObjs \cup {None}]

\* The types of the variables.
TypeOK ==
    /\ rooms \in [RoomIDs -> RoomObjs \cup {None}]
    /\ made \subseteq RoomObjs
    /\ peers \in [RoomObjs -> [PeerIDs -> PeerObjs \cup {None}]]
    /\ peer \in [PeerObjs -> PeerRec \cup {None}]
    /\ hs \in [Handlers -> HandlerRec]
    /\ scan \in ScanRec
    /\ told \subseteq PeerIDs \X PeerObjs \X BOOLEAN

\* No two members of a room hold the same virtual IP, whatever joins, leaves,
\* reconnects and scans interleave (Room.Join allocates and inserts under r.mu).
VIPUnique ==
    \A o \in RoomObjs : \A m, n \in Members(o) : peer[m].vip = peer[n].vip => m = n

\* A freed VIP is reused, so reconnecting never makes the numbers climb (the
\* comment on Room): no VIP exceeds what the number of clients calls for.
VIPDense ==
    \A o \in RoomObjs : \A m \in Members(o) :
        peer[m].vip \in VIPStart .. (VIPStart + Cardinality(PeerIDs) - 1)

\* As long as a client stays registered in a room it keeps its VIP, also across
\* repeated JoinRoom packets from new addresses.
VIPStable ==
    [][\A o \in RoomObjs, p \in PeerIDs :
          peers[o][p] # None /\ peers'[o][p] # None
              => peer'[peers'[o][p]].vip = peer[peers[o][p]].vip]_vars

\* The join that registered m is still running, so its packets may be unsent.
Joining(m) == \E h \in Handlers : ~At(h, "idle") /\ Is(h, "JoinRoom") /\ hs[h].peer = m

\* Every two members of a room whose joins are complete have been sent each
\* other's entry: registration before PeerList means that the later of two
\* racing joins sees the earlier one and announces itself to it.
MutualDiscovery ==
    \A o \in RoomObjs : \A m, n \in Members(o) :
        m # n /\ ~Joining(m) /\ ~Joining(n) =>
            \E v \in BOOLEAN : <<peer[m].id, n, v>> \in told

\* handlePeerStatus is storing or broadcasting a flag of m.
Updating(m) == \E h \in Handlers : ~At(h, "idle") /\ Is(h, "PeerStatus") /\ hs[h].peer = m

\* The voice flag the server holds for a member has been sent to every other
\* member, by the broadcast or in the list it got when it joined, however its
\* join raced the change.
VoiceTold ==
    \A o \in RoomObjs : \A m, n \in Members(o) :
        m # n /\ ~Joining(m) /\ ~Joining(n) /\ ~Updating(n) =>
            <<peer[m].id, n, peer[n].voice>> \in told

\* The relay keeps a Peer that it found under a VIP and follows the pointer after
\* both locks are dropped.  As long as that registration stands, and however
\* joins, reconnects and leaves ran meanwhile, it is in the room that was looked
\* up, and its client is the one that holds the frame's VIP there.  Of a target
\* that was removed meanwhile nothing is said: the frame still goes to its
\* address, where the client may have joined another room.
RelayToHolder ==
    \A h \in Handlers, o \in RoomObjs :
        At(h, "forward") /\ hs[h].peer \in Members(o) =>
            /\ o = hs[h].room
            /\ \A m \in Members(o) : peer[m].vip = Req(h).vip <=> m = hs[h].peer

\* What the room objects promise, as RoomDirectory states it.
Leases == [o \in RoomObjs |-> [p \in PeerIDs |->
             IF peers[o][p] = None THEN None ELSE peer[peers[o][p]].vip]]
Directory == INSTANCE RoomDirectory WITH Rooms <- RoomObjs, lease <- Leases

\* The registry implements the lease directory: VIPs are granted to one member
\* at a time, kept while the member is registered, and only then withdrawn.
DirectoryImplemented == Directory!Spec

\* Every goroutine returns: no handler waits for ever for Manager.mu.
HandlersReturn == \A h \in Handlers : []<>At(h, "idle")

\* A member that stays silent is removed from a room that is still listed.
StaleRemoved ==
    \A r \in RoomIDs, p \in PeerIDs :
        []<>(rooms[r] # None /\ peers[rooms[r]][p] # None => ~peer[peers[rooms[r]][p]].stale)

\* A room that stays empty is dropped from Manager.rooms.
EmptyReclaimed ==
    \A r \in RoomIDs :
        []<>(rooms[r] = None \/ ~IsEmpty(rooms[r]))

-----------------------------------------------------------------------------
(* What the comments of the code say and the code does not do. *)

\* "Remove deletes a room (reclaiming an EMPTY room)".
RemoveOnlyEmpty ==
    [][\A r \in RoomIDs : rooms[r] # None /\ rooms'[r] = None => IsEmpty(rooms[r])]_vars
=============================================================================
