# NetBridge: specification and verification

NetBridge connects game clients that sit behind NATs into virtual LANs. A small
UDP **server** keeps rooms, hands each member a virtual IP and relays frames; a
desktop **client** joins a room, punches holes to the other members, falls back
to the relay and feeds a TUN adapter. This directory holds TLA+ modules that
model the program, the TLC configurations that check them and TLAPS proofs about
them. Paths in this file are relative to the repository (`src/`).

## 1. Inventory

### Server (`server/`)

| part | state | operations |
|---|---|---|
| room registry, `internal/room` | `Manager.rooms` (name → `*Room`) under `Manager.mu`; `Room.peers` (id → `*Peer`) under `Room.mu` | `GetOrCreate`, `Get`, `Remove`, `ScanTimeout`, `LookupByAddr`; `Join`, `Leave`, `GetPeer`, `GetPeerByVIP`, `PeerList`, `IsEmpty` |
| peer, `internal/peer` | address, virtual IP, voice flags, `lastSeen` | `New`, `Touch`, `IsTimeout`, `SetVoiceStatus`, `SetVirtualIP` |
| signalling, `internal/signaling` | local variables of each handler goroutine and of `scanLoop` | one handler per packet type, `scanAndClean` |
| relay, `internal/relay` | locals only | `HandleCompactFrame`, `HandleRelayData` |
| UDP loop, `internal/server` | the socket | `Serve` starts one goroutine per datagram |

Handlers share the registry and nothing else orders them: a datagram may
overtake an earlier one of the same client, and a handler takes and drops the two
mutexes several times, keeping pointers in between.

### Client (`client/`)

| part | state | operations |
|---|---|---|
| core, `core/client.go` | connection, configuration, `channels` (peer id → channel), `pendingPunches` (address → notification) | `Connect`, `JoinRoom`, `LeaveRoom`, `Disconnect`; `dispatch` with one goroutine per datagram; `punchPeer`/`punchOne` |
| peer table, `peer/manager.go` | the other members and self | `SetSelf`, `Upsert`, `Remove`, `Reset`, … |
| channels, `netconn/` | P2P channel with a keep-alive goroutine, relay channel | `Send`, `Close` |
| TUN bridge and application, `tun/`, `app.go` | bridge, adapter, `tunMu` | `autoEnsureTun`, `startBridgeLocked`, `LeaveRoom`, `Disconnect` |
| view and voice, `frontend/` | `connected`, `joined`, `autoTried`; reactive copies of what the client reports; audio buffers | `doJoin`, `autoConnect`, `doDisconnect`; events, playback |

The front end calls the application (`Connect`, `JoinRoom`, `Disconnect`), which
calls the core and manages the adapter. The core calls back: `onSelfUpdate` with
the own entry of a `RoomStatus` begins `autoEnsureTun`, `dataHandler` writes
frames to the adapter. The bridge's outbound loop reads the adapter and calls
`SendToPeer`. The core's loops (`heartbeatLoop`, `pongLoop`) share `c.ctx`,
`c.conn` and `pongCh` with `Connect` and `Disconnect`, without a lock.

### What is hard here

* **Interleaved handlers** of the server over two levels of locks, with pointers
  that outlive the lock: virtual IPs, discovery of members, reclaiming of rooms.
* **Two critical sections where one is needed**: `IsEmpty` then `Remove`,
  `Join` then `PeerList`, the scan and its announcements.
* **Datagrams** that are lost or overtake each other, above all a late
  `PeerLeave` or `PeerStatus`.
* **Timeouts against late answers** in hole punching; several `punchPeer`
  goroutines for one peer; `LeaveRoom` while they run.
* **Life cycles**: contexts that are replaced while loops of the previous
  connection still run, the background configuration of the adapter.

`PROJECT.json` lists each hazard at its line with the properties that cover it.

## 2. Modules

| module | what it is |
|---|---|
| `RoomServer` | the server: registry, all handlers, relay, timeout scan |
| `RoomDirectory` | abstract specification: a room is a set of leases on virtual IPs |
| `RoomServerInv` | the inductive invariant of `RoomServer` |
| `RoomServerProofs` | the theorems about `RoomServer`, proved with TLAPS |
| `MCRoomServer` | constants and symmetry for TLC |
| `PeerChannels` | one client in a session: peer table, channels, punches, with its inductive invariant |
| `PeerLinks` | abstract specification: each peer is reached over one link at most |
| `PeerChannelsProofs` | the theorems about `PeerChannels` |
| `MCPeerChannels` | the peers' records and symmetry for TLC |
| `ClientLifecycle` | the client's connection: handshake, teardown, the loops that outlive it, with its inductive invariant |
| `ClientLifecycleProofs` | the theorems about `ClientLifecycle` |
| `TunApp` | the application's adapter and bridge: `autoEnsureTun`, leaving, quitting, and what the outbound loop sends, with its inductive invariant |
| `TunAppProofs` | the theorems about `TunApp` |
| `NetBridge` | the server composed with the clients' tables and the network: `RoomServer` extended by clients that send what it receives and receive what it sends, with its inductive invariant |
| `NetBridgeProofs` | the theorems about `NetBridge`, which rest on those about `RoomServer` |
| `MCClientLifecycle`, `MCTunApp`, `MCNetBridge` | their instances for TLC |

### RoomServer

`rooms` is `Manager.rooms`. Rooms and peers are heap objects (`RoomObjs`,
`PeerObjs`) because a handler may hold a `*Room` that is no longer listed and a
`*Peer` that is no longer a member; `peers[o]` is `Room.peers` of the object `o`,
`peer[m]` the fields of the object `m`. `hs[h]` holds the local variables of a
handler goroutine: its program counter, the packet, the `*Room` and `*Peer` it
holds, the VIP that `Join` returned and the slice of `PeerList`. `scan` does the
same for `scanLoop`. `told` is a history variable: which client was sent which
`Peer` object with which voice flag.

An action is one critical section of `Manager.mu` or `Room.mu`, with the local
computation after it. `handleJoinRoom` is `JoinGetRoom` (`peer.New`,
`GetOrCreate`), `JoinKnown` or `JoinNew` (`Room.Join`), `Snapshot` (`PeerList`),
`JoinAnnounce` (the sends). `handlePeerLeave` is `GetRoom`, `Leave`, `Snapshot`,
`Broadcast`, `LeaveCheckEmpty`, `LeaveReclaim`. The scan holds `Manager.mu` from
its first room to the deletion: while `scan.pc = "sweep"` no action that takes
`Manager.mu` is enabled (`MgrFree`), but handlers that only need a `Room.mu` go on,
which is what the code does.

Abstractions. Time is one bit per peer (`stale`: `lastSeen` is older than
`PeerTimeout`); `Expire` sets it, `Touch` and a reconnect clear it. `MicOn`
travels with `VoiceOn` everywhere, so one flag stands for both. Nicknames,
payloads and the two textual forms of an address are left out. A send cannot
fail. An address belongs to one client (`AddrOwner`): `JoinRoom`, `Ping` and
compact frames use the address they come from.

### Properties

* `VIPUnique`, `VIPDense`, `VIPStable`: no two members of a room hold one virtual
  IP; numbers stay within what the number of clients calls for; a client keeps
  its number while it is registered.
* `DirectoryImplemented`: with `lease <- Leases` every step of the server is a
  grant of a free number, a revocation, or a stutter of `RoomDirectory`.
* `MutualDiscovery`: two members whose joins are complete have been sent each
  other's entry, however the joins raced.
* `VoiceTold`: the flag the server holds for a member has been sent to every
  other member, once the joins and status changes concerned are over.
* `RelayToHolder`: as long as the target of a relayed frame stays registered, it is
  in the room that was looked up, and its client is the one that holds the frame's
  VIP there, whatever joined, came back or left between the relay's two lookups.
  It does not say that a frame never reaches another room: a target removed
  meanwhile still gets it at its address, where the client may have joined
  another room by then.
* `HandlersReturn`, `StaleRemoved`, `EmptyReclaimed`: liveness.

`MutualDiscovery` and `VoiceTold` speak of what was *sent*; they say nothing of
the order in which a client receives it.

### Runs

| run | instance | shows |
|---|---|---|
| `server_rooms` | 2 clients, 2 rooms whose VIPs coincide, 2 room objects, 3 peer objects, 2 handlers; joins, leaves, pings, relayed frames | `TypeOK`, `RelayToHolder`, the three VIP properties, `DirectoryImplemented`, the invariant of the proofs (`IndInv`) |
| `server_live` | 2 clients, 1 room, 2 room objects, 1 handler beside the scan; joins, leaves, voice flags, pings, silence, `FairSpec` | the three liveness properties |
| `server_orphan` | small | a disagreement, section 5 |

`MutualDiscovery` and `VoiceTold` are checked in `net`, where the same handlers run
with clients around them, one of which turns its voice on.

The constant `Kinds` selects the packet types of a run, so that each run reaches
deep interleavings of the handlers that matter for its question. Two handlers are
enough for a race between two packets; a third handler, such as a join that races
two status changes, is covered by the proofs, as are the combinations of packet
types that no run has, the timeout scan beside two handlers among them. A peer
object is allocated once, so three of them are three joins of new members in all:
a client leaves and comes back while another one joins, and a host number is given
out, returned and given out again. Two room objects allow a room to be reclaimed
and created again under the same name. `VIPEnd = 6` makes a pool of four numbers
for two clients: an allocation that skips a free number stays in the pool, and
only `VIPDense` tells.

`server_live` has one handler beside the scan: a handler waits for the scan's hold on
`Manager.mu` and never, across two steps, for another handler. A join slips in
between the scan's `IsEmpty` and its deletion; between those of `handlePeerLeave` it
does so in `server_rooms`, for the safety properties only.

Symmetry: handlers and heap objects are interchangeable. In the run with two
rooms so are the rooms, and the two clients together with their addresses
(`SwapClients`): each client has one address, no room is special, and no
definition chooses among them. The liveness run uses no symmetry. Deadlock is
checked in each of these runs (`Ignore` models packets that are dropped, so a stuck
goroutine shows up as a liveness violation, not as a deadlock).

Fairness (`FairSpec`): goroutines are scheduled, and `sync.RWMutex` does not
starve a waiter, so a handler whose next step is enabled again and again takes
it: strong fairness per handler, because `Manager.Remove` waits for a mutex that
others take again and again. The scan's ticker fires for ever: weak fairness of
`Scan`. Nothing is assumed of the arrival of packets or of the passing of time.

### PeerChannels

`peers` and `self` are `peer.Manager`; `channels` is `Client.channels` and `chan`
the channel objects that are open (a P2P channel runs a ping goroutine until it
is closed); `pending` is `Client.pendingPunches`, with the goroutine that waits in
place of the Go channel it waits on. `hs[h]` is a goroutine that handles a
datagram or sends a packet, `tk[t]` a `punchPeer` and `att[t][a]` its `punchOne` for
the address `a`. A handler starts at most one punch per peer, so punches are
indexed by handler and peer, and a handler's slot is used again when its punches
are over.

An action is one critical section of `peer.Manager.mu`, `channelsMu` or
`pendingPunchesMu`, or the choice of a `select`. `punchOne` is `Register` (which
fails at once if the address is waited for), `Succeed` or `GiveUp`, and `Cleanup`
(the deferred delete and the send to `successCh`). `punchPeer` is `Spawn`, `Select`
or `AllFailed`, then `Connect` or `Fallback`, then `Return`. `Select` keeps the
choice Go leaves open when a success and the end of all attempts are both ready.
`LeaveRoom` is `LeavePunches`, `LeaveChannels`, `LeaveReset`; `handleRoomStatus` is
`RoomStatus`, `StatusSelf`, `StatusPeer`, `StatusSpawn`.

Abstractions: a timeout may come at any moment, and stands for a cancelled
context as well; the own VIP that a channel stamps on its frames is left out;
candidate addresses resolve (the server formats them); nothing is sent in the
model, and a reply may come for any waiting attempt. `Late` lets datagrams of the
room arrive after `LeaveRoom`. Of `Disconnect`, which calls `LeaveRoom` first,
`CancelPunches` is the cancelled context, on which a waiting `punchPeer` returns
without a fallback, and `RenewContext` the next one; the rest of it is in
`ClientLifecycle`. That it closes the socket under a `punchOne` is left out.

Properties:

* `ChannelsOwned`: every open channel is the one channel of one peer, so none is
  left open where `LeaveRoom` and `handlePeerLeave` cannot find it.
* `NoDowngrade`: no step replaces a P2P channel by a relay.
* `NoStalePending`: an entry of `pendingPunches` belongs to an attempt that has
  not ended; no address stays blocked.
* `LinksImplemented`: with a peer's link the record of its channel (`LinkTo`) and
  `OpenLinks` those of the open channel objects, every step establishes a link to
  one peer, loses links, or is a stutter of `PeerLinks`. Its `Routes` are the
  relay to a VIP and the direct way to an endpoint that the server gave for that
  very peer: a punch may not install a channel to somebody else's endpoint.
* `ClientInv`: the inductive invariant of the proofs.
* `PunchEnds`, `PeerGetsChannel`: liveness. The second is checked without
  `PeerLeave`, whose two critical sections can drop the channel of a peer that
  is back already, and without `Disconnect`, after which a punch leaves its peer
  without a channel on purpose.

| run | instance | shows |
|---|---|---|
| `client_dual` | a peer with two endpoints and a third endpoint that is nobody's, 2 handlers, 2 channel objects; lists, `PeerAddress`, leaves, `LeaveRoom`, `Disconnect`, incoming punches, sends | safety, `LinksImplemented` and the inductive invariant when two punches race |
| `client_live` | 2 peers that list one endpoint, 1 handler, 3 channel objects; `RoomStatus`, `PeerAddress`, `FairSpec` | liveness, and the inductive invariant when punches of two peers collide |
| `client_quiet` | small | a disagreement, section 5 |

Two handlers give two punches of one peer, or a punch and a datagram, at a time,
which is what a race over an entry takes; two endpoints are a dual-stack peer. In
`client_live` one list starts a punch for each peer, and the second to register
fails at once as a duplicate. Channel objects are one more than peers, as a new
one is made before the old one is closed. Two peers of which one is dual-stack,
with two handlers, are more than TLC visits in the time of a run: the theorems
cover that combination. Deadlock is checked. Fairness: goroutines run, the 15 s timer fires and
a call of `LeaveRoom` goes through; nothing is assumed of replies and datagrams.

### ClientLifecycle

`ctx`, `conn`, `server`, `state` and `room` are the fields of `Client`; `open` are
the sockets not closed yet, `reader[c]` the read loop of a socket with the
context it was given, `loop[<<kind, c>>]` the `pongLoop` or `heartbeatLoop` that
connection `c` began. Sockets and contexts are numbered in the order they are
made. `op` and `goal` are where each caller (the form, the timer of `autoConnect`,
the Disconnect button) is in `Connect` or `Disconnect`, which share their
teardown: `Cancel`, `CloseConn`, `ForgetConn`, `Renew` are the statements of both
`failConnect` and `Disconnect`, one action each, because the loops see what is
between them.

A loop's round has three points: its head, where `select` evaluates `c.ctx.Done()`
(`EnterSelect`), the wait under that context, and the body. A loop that is in its
body when the context is replaced goes on under the new one: that is in the model,
and so are its consequences, a second heartbeat loop and a heartbeat that
dereferences a nil connection (`Crash`). A Pong is known by the socket it came in
by, on its way through `wire`, `handler` (a goroutine of `dispatch`), `pongCh` and
`pongs`, which is `pongSeq` with the origin of every count.

Properties: `SocketsOwned` (the only open socket is the one `c.conn` holds),
`Served` (a client at rest with a connection has its socket read and its loops
running under a context that lives; without one it shows that and can connect
again; the read loops of former connections have been told to end),
`LifecycleInv` (the inductive invariant of the proofs), `OperationsReturn`,
`OldReadLoopsEnd`, `DispatchReturns` (no goroutine that brings a Pong stays, also
when `pongCh` is full and the loop that would take from it is gone), and in a run of
its own `HandshakeGenuine`. `Served` lets an old
`pongLoop` or `heartbeatLoop` run on beside the new one: that is what the code
does.

| run | instance | shows |
|---|---|---|
| `lifecycle` | 2 connections, 1 heartbeat, `pongCh` of 1 | the properties above under `FairSpec` |
| `lifecycle_handshake` | the same | a disagreement, section 5 |

Two connections are one change of connection, which is what every hazard here
needs; a single place in `pongCh` makes it full at once. Operations of the front
end do not overlap (`Overlap = FALSE`): it awaits one before it begins the next,
with two exceptions that need a user who is quicker than the program (section 5).
Deadlock is not checked: a client that nobody uses any more stops. Fairness: a
call that can go on does, `PingServer`'s deadline comes, a goroutine of `dispatch`
runs if it can, and a read loop looks at its context, which its one-second read
timeout makes it do. Nothing is assumed of
the network, the tickers, the user or the other loops.

### TunApp

`adapter`, `lastVIP`, `bridge` and `tunMu` are the fields of `App`; `session` are
the adapters that were not closed, `addr` the address the adapter really has;
`loop[b]` the outbound loop of bridge `b`, `handler` the bridge whose
`handleInbound` is the client's `dataHandler`. Each join `j` has one `RoomStatus`
(`answer[j]`), handled in a goroutine of its own: `Reset` empties the table,
`SetSelf` and `Upsert` put in one entry each, in any order and with the own entry
possibly missing, and `onSelfUpdate` takes the own entry as it is by then. It begins
one `autoEnsureTun` (`ensure[j]`), which holds `tunMu` from `EnsureLock` to `Finish`
and whose outcome is kept. `handlePeerAddress` and `handlePeerLeave` change the
table at any time while the user is in a room, also with VIPs of a room left before.
`LeaveRoom` and `Disconnect` are `Leave` (the client), `LockAndStop` and `Stopped`
(`Bridge.Stop` cancels, then waits for the loop under `tunMu`). `shutdown` is
`ShutdownStop`, `ShutdownClose`, `ShutdownClient`, none of them under `tunMu`.

Creating or configuring the adapter may fail, and does for an address that is no
address. A `SetVIP` that fails in `netsh` may have changed the address or not, and
`lastVIP` stays what it was. WinTun's `ReceivePacket` does not block: a read returns
a packet or nothing. A broadcast is four kinds of step, as in the code: `GetSelf`,
`GetPeers`, a `SendToPeer` for each VIP listed, which looks it up in the table as it
is by then, and `SendDone`. `owed[b]` is a history variable: of the members listed,
those who were not handed the packet yet and never left the table since. Addresses
are sequences of four bytes, so that the way a host number becomes an address
(`VIPToIP`) and back (`HostNumber`) is in the model.

Properties:

* `OneReader`: one goroutine at most reads the adapter's session.
* `JoinBridged`: once a join's `autoEnsureTun` has succeeded, a bridge runs until the
  room is left. A rejoin that meets its own VIP on the adapter must still start the
  bridge that leaving stopped, and no goroutine of an earlier join takes it away.
* `BridgeHasAdapter`: nobody meets an adapter that is nil or closed, not even the
  handler of a bridge that was stopped.
* `BroadcastComplete`: before the loop takes its next packet, everybody it listed for
  this one and who stayed a member was handed it. A member that has the VIP `GetSelf`
  returned is not listed.
* `LeaveReturns`: waiting for the outbound loop under `tunMu` does not last for ever.
* `TunInv`: the inductive invariant of the proofs.
* `AdapterFollowsRoom`, that the adapter has the VIP of the room the user is in, is
  what fails (section 5).

They are stated for an application that is not ending: `shutdown` takes no lock,
may meet a running `autoEnsureTun`, and does end with a nil adapter in use or a
second reader in the model as in the code.

| run | instance | shows |
|---|---|---|
| `tun` | 2 joins, VIPs 2 and 3, destinations of all classes | the properties above under `FairSpec` |
| `tun_address` | the same | a disagreement, section 5 |

Two joins are what a race of two `autoEnsureTun` or of one with a leave takes, and
a rejoin with the same or another VIP, both of which can be configured. While the
own entry is not in the table, or a stale one is, a broadcast lists both VIPs, so that
one of two may go before it is sent to. VIPs without an address (256 and more) are
left to the theorems; of the destinations, one decodes to 258. Deadlock is not
checked: a quiet application stops. Fairness: goroutines run; `tunMu` may be taken by
others in between, so its waiters get strong fairness, as `sync.Mutex` starves nobody.

### NetBridge

The composition: `up` and `down` are the datagrams under way, in no order;
`Accept` is `RoomServer`'s `Receive` of a request that a client sent, `Compute` and
`Send` its handlers' steps, with the packets that `JoinPackets` and
`BroadcastPackets` say put on the network. A client has a socket (a new one for
every `Enter`), a peer table and its own VIP, changed by `handleRoomStatus`,
`handlePeerAddress`, `handlePeerLeave`, `handlePeerStatus`, each in whatever order
the datagrams arrive. `Enter` without a `Disconnect` before is a client that
crashed and was started again. A handler's update of the table is one step: the
orders that splitting it adds are those of the datagrams themselves (the split is
in `PeerChannels`). A datagram for a socket that was closed is gone; a handler of
the previous session that is still under way then is left out. Loss is not: a
datagram may stay on its way for ever, but the properties below speak of `Quiet`
states, in which all has been delivered, because the code retries none of it.

* `OneKnowsOther`: when all is delivered, of two clients that entered and never
  left, and whose one registration is in the same room object, at least one knows
  the other, so that a punch starts from one side.
* `VIPAgreed`: when all is delivered a client that never left is registered and
  configures a VIP it is registered with, and its peers have no other for it,
  across restarts with a new socket.
* `NetInv`: the inductive invariant of the proofs.
* `NetTypeOK`, and `MutualDiscovery` and `VoiceTold` as in `RoomServer`; the other properties of
  `RoomServer` hold of the composition by `ServerBehindNetwork` (section 3).
* `ViewsAgree`, that both know each other, is what fails (section 5).

| run | instance | shows |
|---|---|---|
| `net` | 2 clients, one with two sockets that turns its voice on, one that leaves; 2 room and 3 peer objects, 2 handlers | the properties above |
| `net_views` | as `net`, but the client with two sockets is the one that leaves | a disagreement, section 5 |

The condition on the room object is there because of what section 5 says of
`handlePeerLeave`: a room may be unlisted under its members. Whoever joins
afterwards is in another object under the same name, and nobody in either is told
of anybody in the other; a client whose crashed program is started again may be
registered in both, with a VIP in each (`Home`, `RegisteredVIPs`). That two clients
which never left are so divided takes a third that leaves between them, so the
instance of `net` does not reach it; the theorems of section 3 cover it.

Two clients are a pair of members; the second socket gives a restart at any point
of the other's join or leave; two handlers run two joins, or a join and a leave, at
once. A client that leaves and comes back is in `server_rooms`, and behind a
network in `net_views` and the theorems. The two sockets are interchangeable, and
so are handlers and heap objects. Clients that ever left are excluded (`Settled`): a
`PeerLeave` that arrives after its sender came back removes it, and the code does
nothing about it. Deadlock is not checked: the end of all traffic is `Quiet`.

## 3. Proofs

`RoomServerProofs` proves, for all values of the constants that satisfy the named
assumptions:

| theorem | statement |
|---|---|
| `TypeCorrect` | `Spec => []TypeOK` |
| `RelayCorrect` | `Spec => []RelayToHolder` |
| `VIPsUnique`, `VIPsDense`, `VIPsStable` | the three VIP properties |
| `DirectoryCorrect` | `Spec => Directory!Spec` (refinement) |
| `DiscoveryCorrect`, `VoiceCorrect` | `MutualDiscovery` and `VoiceTold` |
| `InvariantCorrect` | `Spec => []IndInv`, from which the last two and `RelayToHolder` follow |

Assumptions: `Kinds` are known packet types; every address has an owner; the
bounds of the pool are naturals; the clients are finitely many and no more than
the pool has numbers (`PoolAssumption`: otherwise `allocVIPLocked` gives the lowest
number out twice, as its comment says); `None` is not an object.

None of the properties is inductive. The strengthening is built in layers:

1. `TypeInv`: types, plus what each program counter says of the locals
   (`LocalsOK`), that every pointer leads to an allocated object (`PointersOK`),
   that a member is listed under its own id (`MembersOK`), and that the sweep
   visits listed rooms only (`ScanOK`).
2. `HeapInv` adds ownership: the `Peer` of a running join is known to that join
   alone until it is inserted (`Fresh`), carries the id of the request
   (`JoinerID`), and an object is a member of one room object at most, the one its
   holders hold (`OneHome`).
3. `VIPInv` adds `VIPUnique` and `VIPDense`. Only `Room.Join` of a new peer can
   disturb them; every other step is a `RegistryKept` step (members go, none
   comes, no VIP changes). That `allocVIPLocked` returns a number that is free and
   no higher than the number of clients (`AllocVIPFree`) is a counting argument
   about finite sets and the existence of a least free number.
4. `IndInv` adds what members know of each other. `KnownOrWill`: for two members
   each was told of the other, or a join is about to tell it (`JoinTells`: it holds
   one of the two and has not read the list, or has both in its list).
   `ToldOrWill` says the same of the current voice flag, with running status
   broadcasts (`StatusTells`). The argument is the one behind "register first, then
   list": the later of two joins finds the earlier one in its list. `RoutedByVIP`
   says of a relay that holds a target that the target, while it is a member, has
   the frame's VIP: a reconnect does not change the VIP of a registered object
   (`VIPStays`). With `OneHome` and `VIPUnique` that is `RelayToHolder`.

`PeerChannelsProofs` does the same for the client, for any number of peers,
endpoints and goroutines:

| theorem | statement |
|---|---|
| `ClientTypeCorrect` | `Spec => []TypeOK` |
| `ChannelsCorrect` | `Spec => []ChannelsOwned` |
| `NoDowngradeCorrect` | `Spec => NoDowngrade` |
| `PendingCorrect` | `Spec => []NoStalePending` |
| `LinksCorrect` | `Spec => LinksImplemented` (refinement of `PeerLinks`) |
| `ClientInvCorrect` | `Spec => []ClientInv` |

Assumptions: `Infos` are records of known peers and endpoints, `None` is none of
the objects. The steps are first reduced to four kinds of change to the channels
(`ChannelStep`: none, a new channel, one dropped, all dropped), from which
ownership and the absence of downgrades follow; a new channel leaves the others
alone only because no two peers share one (`ChannelsOwned`). `NoStalePending` needs
`GoroutinesOK`: a busy handler has no punch running, so `Spawn` does not restart a
punch that has entries, and no attempt outlives its punch.

`LinksCorrect` rests on `RecordsOK`, a layer of `ClientInv` about the records that
travel through the goroutines: a list names a peer once, the table keeps a record
under the peer it is of, and a punch that is about to open a channel holds an
endpoint of the record it holds. Hence what `Connect` or `Fallback` installs for
`p` is in `Routes[p]`. A new channel then establishes a link (`LinkEstablished`),
whatever it replaces; a dropped one, or all of them, loses links (`LinkLost`); and
because every open channel is owned, the open links are exactly the peers' links
(`OpenAreLinks`). A step that changes no channel, or puts an equal one in the
place of another, is a stutter.

`TunAppProofs`, for every set of host numbers and any number of joins:

| theorem | statement |
|---|---|
| `TunInvCorrect` | `Spec => []TunInv` |
| `TunTypeCorrect` | `Spec => []TypeOK` |
| `OneReaderCorrect` | `Spec => []OneReader` |
| `JoinBridgedCorrect` | `Spec => []JoinBridged` |
| `AdapterCorrect` | `Spec => []BridgeHasAdapter` |
| `BroadcastCorrect` | `Spec => []BroadcastComplete` |

Assumptions: host numbers are positive naturals, 256 and more among them, and
there is a first join; whatever else packets go to has four bytes. `TunInv` says who holds `tunMu` (`LockHeld`), that the bridge that
`Stop` waits for has been cancelled (`StopsBridge`), and that until the application
ends there is one adapter, which every bridge was made for and no bridge but
`App.bridge` is still reading (`OneAdapter`). `OneReader` follows: `Start` is
reached under the lock and with `bridge = nil`, which `Stop` leaves only behind a
loop that is over. `BridgesCounted` and `EnsureOnce` say that the model never runs
out of bridges, so that its bound hides nothing. `JoinBridged` is inductive together
with `StoppedLast`: only the `Leave` that is about to take it away has `App.bridge`
stopped, and a loop ends only when stopped, so a bridge that an `autoEnsureTun` finds
under the lock is running (`BridgeRuns`). `BroadcastComplete` follows from
`OwesOnlySending`: what a loop owes is among what it has still to send to and still a
member, in whatever order the table changes. `RoundTrip` says that the bridge reads
from an address the number `VIPToIP` wrote.

`ClientLifecycleProofs`, for any number of connections, heartbeats and places in
`pongCh`, and under `~Overlap` (with two operations at once `SocketsOwned` does
fail, section 5):

| theorem | statement |
|---|---|
| `LifecycleInvCorrect` | `Spec => []LifecycleInv` |
| `LifecycleTypeCorrect` | `Spec => []TypeOK` |
| `SocketsOwnedCorrect` | `Spec => []SocketsOwned` |
| `ServedCorrect` | `Spec => []Served` |

`Served` speaks of a client at rest; to be inductive it needs what holds at every
statement of `Connect` and of the teardown (`Stage`): no connection before the
dial, a read one while the handshake waits, a cancelled context before the socket
is forgotten, no open socket after. `ContextsCounted` ties the contexts made to
the connections made, so that there is always a next one; `ReadersEnd` says that a
read loop that was not told to end is that of this connection.

`NetBridgeProofs`, for any number of clients, sockets, handlers and datagrams:

| theorem | statement |
|---|---|
| `NetImplementsServer` | `NetSpec => Spec`: the composition implements `RoomServer` |
| `ServerBehindNetwork`, `DirectoryBehindNetwork` | the theorems of `RoomServerProofs` hold of the composition |
| `NetInvCorrect` | `NetSpec => []NetInv` |
| `NetTypeCorrect` | `NetSpec => []NetTypeOK` |
| `OneKnowsOtherCorrect` | `NetSpec => []OneKnowsOther` |
| `VIPAgreedCorrect` | `NetSpec => []VIPAgreed` |

Assumptions, besides those of `RoomServer`: `Lobby` is a room, the clients' packets
are among `Kinds`, and `None` is neither a socket nor an entry.

`NetImplementsServer` needs no refinement mapping, because `NetBridge` extends
`RoomServer`: every step is one of the server's or leaves its variables alone,
and what is on its way to the server is something `RoomServer` may receive.
`IndInv` then holds of the composition, and the proofs go on beside it. The
server's steps are reduced to five effects (`Accepts`, `Registers`, `TakesList`,
`Announces`, `Serves`), which is all that the rest of the proof sees of them.

`NetInv` follows the two things that travel:

1. The **VIP of a client**. A client that never left is never removed, because
   only a `PeerLeave` of its own removes it (`LeaversLeft`), so that its VIP stays
   right once it is known (`StaysRegistered`, `VIPOfKept`). `HandlersKnow`,
   `PacketsOK` and `TablesOK` say it of the handlers' locals, of the packets and of
   the tables. `VIPAgreed` follows, since a client whose list has come (`Arrived`)
   found itself on it.
2. The **list of a socket**. A socket sends one `JoinRoom`, and there is one
   `RoomStatus` for it at most (`OneListing`): a list is asked for (`Pending`), is
   being sent, is on its way, or has come, and no second one can reset the table
   later. `OneLists`: of two members of one room whose lists were taken, one list
   names the other client, wherever that list has got to (`Lists`). The later of
   the two `PeerList` calls establishes it (`ListTaken`), for then both are
   registered; every other step carries it on (`ListsKept`), and once it has come,
   only a `PeerLeave` could remove the entry (`KnownKept`). `OneKnowsOther` is
   `OneLists` in a state where all is delivered.

The proof asks for the condition on the room object where it uses the later
`PeerList`: that call reads the room object of *its* join, and the other client is
on the list only if it is registered in that very object.

Every safety property that a passing run checks is stated by a theorem.
Model-checked only are the liveness properties: `HandlersReturn`, `StaleRemoved`,
`EmptyReclaimed`, `PunchEnds`, `PeerGetsChannel`, `OperationsReturn`,
`OldReadLoopsEnd`, `DispatchReturns` and `LeaveReturns`. Most are written as "again and again it is
over" (`[]<>`), which says the same as "what was begun ends" and costs TLC less.
They depend on fairness and on `ENABLED`,
which the prover does not handle. The inductive invariants are checked by the
runs as well (`IndInv`, `ClientInv`, `TunInv`, `LifecycleInv`, `NetInv`).

## 4. Not modelled

Socket errors and the server's shutdown; the wire format (JSON codec, binary
frame header, parsing of addresses: pure functions; those that a property turns
on, `VIPToIP` and the bridge's host number, are in `TunApp`);
the clock behind `HeartbeatInterval`, `PeerTimeout` and the scan (one bit per peer
stands for it); peer
latencies and `latencyEmitLoop`, which only display; the view beyond the three
operations that call the client, and browser audio; the `netsh` and PowerShell
calls of the Windows adapter and the stub of other platforms; tray, elevation,
embedded driver, the command-line probes, the stage 1 `PingHandler` that nothing
constructs, translations and generated bindings.

## 5. Where code and comments disagree

* `server_orphan`: `handlePeerLeave` tests `IsEmpty` and calls `Remove` in two
  critical sections. A join in between is registered in a room object that is no
  longer listed: it gets a VIP, and then no ping, chat or frame finds it. The
  comment on `Manager.Remove` says "reclaiming of empty rooms". The same happens
  to a join that obtained its `*Room` before the removal and enters it after.
* `client_quiet`: `LeaveRoom` closes the notifications on which punches wait.
  `punchOne` takes that for a `punch_reply`, and `punchPeer` opens a P2P channel
  with its ping goroutine after the room was left.
* `lifecycle_handshake`: `PingServer` takes any counted Pong for its answer, and
  `pongCh` and `pongSeq` outlive the connection. A Pong of the previous server
  that is still queued, or in a goroutine of `dispatch`, ends the handshake with
  the next one, which need not exist. The comment in `Connect` says the handshake
  confirms that the server is really reachable.
* `tun_address`: every `RoomStatus` begins an `autoEnsureTun` with the VIP of that
  moment, and the last to take `tunMu` configures the adapter. One of a room that was
  left may come after that of the room the user is in: it finds `lastVIP` different
  and sets the adapter back to the old VIP. Nothing compares it with the client's own
  VIP, and nothing sets it right. The comments say that getting a VIP is the reliable
  signal on which the adapter is switched. (With a third join the same follows from a
  `SetVIP` that fails half way, as `lastVIP` is not what the adapter has then.)
* `net_views`: `handleRoomStatus` replaces the table by a list that may be older
  than the table. If the `PeerAddress` of a later member overtakes it, that member
  is forgotten and never sent again; broadcasts, which go to the table's members,
  do not reach it. The README promises them to all room members. One of the
  two still knows the other (`OneKnowsOther`).

More was met while modelling and is behaviour of the modules, without a run of
its own:

* A `RoomStatus` handled after `LeaveRoom`, or an `autoEnsureTun` that gets `tunMu`
  after it, starts a bridge outside any room; the front end says the adapter's
  state is always that of being in a room.
* Between `Join` and `PeerList` a late `PeerLeave` of the same client may remove
  it, so that `RoomStatus` does not list its receiver.
* `LookupByAddr` relies on "a peer is in one room at a time", but nothing removes a
  client from its old room when it joins another one; the room of its compact
  frames is then a matter of map order. (`server_rooms` has clients in two rooms.)
* A second punch for a peer fails at once as a duplicate and installs the relay,
  where the comment says "all timed out (15 s)".
* The deferred delete of an attempt that was answered removes the entry of the next
  attempt for the address, whose reply is then "unknown".
* A punch that started with a peer's former record installs a channel to its former
  VIP, and packets for the new VIP take it.
* `handleRoomStatus` stores the entries that precede the own one before `SetSelf`,
  where its comment says the reverse.
* A heartbeat whose ticker fired before `Disconnect` set `c.conn` to nil
  dereferences it (`Crash` in `ClientLifecycle`), and a heartbeat loop that misses
  the end of its context runs on beside the next connection's.
* `autoConnect`'s timer does not look whether `doJoin` runs or is done; if the form
  is sent within its 500 ms both call `Connect`, and the second overwrites the
  first's socket. `SocketsOwned` fails with `Overlap = TRUE`.
* `constants.go` says the network is a /16, and the bridge decodes two bytes of
  host number, but `VIPToIP` writes the number as the last of four: from 256 on
  the address is invalid and the adapter cannot be configured.
* `broadcast` reads the own VIP before the list. If two `RoomStatus` are handled at
  once, the own VIP may be another by then, and a member that has the former one is
  left out.
* `shutdown` touches bridge and adapter without `tunMu`; the client's `dataHandler`
  is not reset when a bridge stops.

## 6. Plan

* `RoomServer` with its proofs, refining `RoomDirectory` (done).
* `PeerChannels` with its proofs, refining `PeerLinks` (done).
* `ClientLifecycle`, `TunApp` and `NetBridge` with their proofs (done).

Left, for whoever goes on:

* `Heartbeat`: a discrete clock; `HeartbeatInterval`, `PeerTimeout`, the scan and
  lost pings; which losses a live member survives.
* `Frames`: frame codec and address normalisation as pure operators against
  reference definitions.
