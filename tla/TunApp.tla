------------------------------ MODULE TunApp ------------------------------
(***************************************************************************)
(* The virtual adapter of the desktop application and the bridge between   *)
(* it and the client: app.go (JoinRoom, LeaveRoom, Disconnect,             *)
(* autoEnsureTun, shutdown), tun/bridge.go and the adapter of tun_real.go. *)
(*                                                                         *)
(* The adapter is created for the first virtual IP and kept until the      *)
(* application ends. A bridge, whose outbound loop reads the adapter, is   *)
(* started by autoEnsureTun, a goroutine begun for every RoomStatus that   *)
(* gives the client a VIP, and stopped when the room is left. tunMu guards *)
(* adapter and bridge, except in shutdown.                                 *)
(***************************************************************************)
EXTENDS Integers, Sequences, FiniteSets

CONSTANTS VIPs,        \* host numbers the server may give out
          Strangers,   \* destinations of IP packets besides the members' own
          MaxJoins     \* bound: how often a room is joined

ASSUME VIPsAssumption == VIPs \subseteq Nat \ {0}
ASSUME MaxJoinsAssumption == MaxJoins \in Nat \ {0}
ASSUME StrangersAssumption == Strangers \subseteq [1 .. 4 -> 0 .. 255]

Joins == 1 .. MaxJoins
None == 0                    \* no adapter, no bridge, no VIP, tunMu free
App == -1                    \* tunMu is held by LeaveRoom or Disconnect

----------------------------------------------------------------------------
(* Addresses: an IPv4 address is the sequence of its four bytes. *)

Octets == 0 .. 255
VIPToIP(v) == <<10, 66, 0, v>>
ValidIP(ip) == \A i \in 1 .. 4 : ip[i] \in Octets

\* The host number of an address in 10.66.0.0/16.
HostNumber(ip) == ip[4] + 256 * ip[3]

\* Limited broadcast, broadcast of the subnet, multicast.
IsBroadcast(ip) ==
    ip \in {<<255, 255, 255, 255>>, <<10, 66, 255, 255>>} \/ ip[1] \in 224 .. 239

\* A member may have the address, by its first two bytes and host number.
IsVirtual(ip) == ip[1] = 10 /\ ip[2] = 66 /\ HostNumber(ip) # 0

Destinations == {ip \in {VIPToIP(v) : v \in VIPs} : ValidIP(ip)} \cup Strangers

----------------------------------------------------------------------------
VARIABLES
    process,    \* "up", "crashed" by a nil adapter, or "exited"
    ending,     \* shutdown: "no", "asked", "stop", "close", "client"
    last,       \* the bridge shutdown waits for
    user,       \* the front end's call: "idle", "lock", "wait"
    room,       \* whether the user is in a room: joined and has not left
    answer,     \* the RoomStatus of each join and the goroutine that handles it
    mine,       \* of it: the own VIP, not yet put into the table
    list,       \* of it: the VIPs of the others not yet put into the table
    self,       \* VirtualIP of the client's own entry, None if empty
    others,     \* VIPs of the other members
    ensure,     \* the autoEnsureTun that each RoomStatus began
    wanted,     \* the VIP it was given
    tunMu,      \* who holds it: None, App or a join
    adapter,    \* a.adapter
    adapters,   \* adapters created so far
    session,    \* the adapters whose session has not ended
    addr,       \* the VIP the adapter is configured with
    lastVIP,    \* a.lastVIP
    bridge,     \* a.bridge
    loop,       \* outboundLoop of each bridge, "none" before Start
    tun,        \* the adapter of each bridge
    stopped,    \* bridges whose context is cancelled
    handler,    \* the bridge whose handleInbound is the client's dataHandler
    own,        \* the VIP that each loop's broadcast took from GetSelf
    todo,       \* VIPs that each loop has still to call SendToPeer for
    owed        \* (history) of those, the ones it listed and who are members since

exit == <<ending, last>>
client == <<room, answer, mine, list, self, others>>
card == <<adapter, adapters, session, addr, lastVIP>>
bridges == <<bridge, loop, tun, stopped, handler>>
tasks == <<ensure, wanted>>
packets == <<own, todo, owed>>
vars == <<process, exit, user, client, tasks, tunMu, card, bridges, packets>>

TypeOK ==
    /\ process \in {"up", "crashed", "exited"}
    /\ ending \in {"no", "asked", "stop", "close", "client"}
    /\ last \in {None} \cup Joins
    /\ user \in {"idle", "lock", "wait"}
    /\ room \in BOOLEAN
    /\ answer \in [Joins -> {"none", "sent", "read", "fill", "done"}]
    /\ mine \in [Joins -> VIPs \cup {None}] /\ list \in [Joins -> SUBSET VIPs]
    /\ self \in VIPs \cup {None} /\ others \subseteq VIPs
    /\ ensure \in [Joins -> {"none", "start", "held", "set", "bridge", "first",
                            "ok", "failed"}]
    /\ wanted \in [Joins -> VIPs \cup {None}]
    /\ tunMu \in {None, App} \cup Joins
    /\ adapter \in {None} \cup Joins /\ adapters \in 0 .. MaxJoins
    /\ session \subseteq Joins
    /\ addr \in VIPs \cup {None} /\ lastVIP \in VIPs \cup {None}
    /\ bridge \in {None} \cup Joins
    /\ loop \in [Joins -> {"none", "run", "read", "own", "list", "send", "end"}]
    /\ tun \in [Joins -> {None} \cup Joins]
    /\ stopped \subseteq Joins /\ handler \in {None} \cup Joins
    /\ own \in [Joins -> VIPs \cup {None}]
    /\ todo \in [Joins -> SUBSET Nat] /\ owed \in [Joins -> SUBSET VIPs]

Init ==
    /\ process = "up" /\ ending = "no" /\ last = None /\ user = "idle"
    /\ room = FALSE /\ answer = [j \in Joins |-> "none"]
    /\ mine = [j \in Joins |-> None] /\ list = [j \in Joins |-> {}]
    /\ self = None /\ others = {}
    /\ ensure = [j \in Joins |-> "none"] /\ wanted = [j \in Joins |-> None]
    /\ tunMu = None
    /\ adapter = None /\ adapters = 0 /\ session = {}
    /\ addr = None /\ lastVIP = None
    /\ bridge = None /\ loop = [b \in Joins |-> "none"]
    /\ tun = [b \in Joins |-> None] /\ stopped = {} /\ handler = None
    /\ own = [b \in Joins |-> None]
    /\ todo = [b \in Joins |-> {}] /\ owed = [b \in Joins |-> {}]

----------------------------------------------------------------------------
(* The room: the user's calls and what the server answers. *)

\* The table of the other members becomes S: who is no longer in it is owed no
\* packet.
Table(S) ==
    /\ others' = S
    /\ owed' = [b \in Joins |-> owed[b] \cap S]

\* Connect and JoinRoom: the server will answer with a RoomStatus.
JoinRoom(j) ==
    /\ user = "idle" /\ ~room /\ ending = "no"
    /\ answer[j] = "none" /\ \A i \in Joins \ {j} : answer[i] # "none" <=> i < j
    /\ room' = TRUE
    /\ answer' = [answer EXCEPT ![j] = "sent"]
    /\ UNCHANGED <<process, exit, user, mine, list, self, others, tasks, tunMu, card,
                   bridges, packets>>

\* The read loop hands the RoomStatus to a goroutine of its own.
Dispatch(j) ==
    /\ answer[j] = "sent"
    /\ answer' = [answer EXCEPT ![j] = "read"]
    /\ UNCHANGED <<process, exit, user, room, mine, list, self, others, tasks, tunMu,
                   card, bridges, packets>>

\* handleRoomStatus empties the table. A member removed meanwhile may be missing
\* from the packet, the client itself among them.
Reset(j) ==
    /\ answer[j] = "read"
    /\ answer' = [answer EXCEPT ![j] = "fill"]
    /\ self' = None /\ Table({})
    /\ \E v \in VIPs \cup {None} :
         /\ mine' = [mine EXCEPT ![j] = v]
         /\ \E S \in SUBSET (VIPs \ {v}) : list' = [list EXCEPT ![j] = S]
    /\ UNCHANGED <<process, exit, user, room, tasks, tunMu, card, bridges, own, todo>>

\* The entries of the packet are put into the table one by one.
SetSelf(j) ==
    /\ answer[j] = "fill" /\ mine[j] # None
    /\ self' = mine[j] /\ mine' = [mine EXCEPT ![j] = None]
    /\ UNCHANGED <<process, exit, user, room, answer, list, others, tasks, tunMu, card,
                   bridges, packets>>

Upsert(j) ==
    /\ answer[j] = "fill"
    /\ \E v \in list[j] :
         /\ Table(others \cup {v})
         /\ list' = [list EXCEPT ![j] = @ \ {v}]
    /\ UNCHANGED <<process, exit, user, room, answer, mine, self, tasks, tunMu, card,
                   bridges, own, todo>>

HandleRoomStatus(j) == Dispatch(j) \/ Reset(j) \/ SetSelf(j) \/ Upsert(j)

\* Then onSelfUpdate is called with the own entry as it is by now.
onSelfUpdate(j) ==
    /\ answer[j] = "fill" /\ mine[j] = None /\ list[j] = {}
    /\ answer' = [answer EXCEPT ![j] = "done"]
    /\ IF self = None THEN UNCHANGED tasks
       ELSE /\ ensure' = [ensure EXCEPT ![j] = "start"]
            /\ wanted' = [wanted EXCEPT ![j] = self]
    /\ UNCHANGED <<process, exit, user, room, mine, list, self, others, tunMu, card,
                   bridges, packets>>

\* PeerAddress and PeerLeave: a member comes or goes, perhaps one of a room the
\* user has left before this one. (Those that come in no room are left out.)
handlePeerAddress(v) ==
    /\ room /\ Table(others \cup {v})
    /\ UNCHANGED <<process, exit, user, room, answer, mine, list, self, tasks, tunMu,
                   card, bridges, own, todo>>

handlePeerLeave(v) ==
    /\ room /\ Table(others \ {v})
    /\ UNCHANGED <<process, exit, user, room, answer, mine, list, self, tasks, tunMu,
                   card, bridges, own, todo>>

\* LeaveRoom or Disconnect: the client leaves first. Disconnect closes the
\* socket too: answers nobody read are gone.
Leave ==
    /\ user = "idle" /\ room /\ ending = "no"
    /\ room' = FALSE /\ self' = None /\ Table({})
    /\ user' = "lock"
    /\ \/ UNCHANGED answer
       \/ answer' = [j \in Joins |-> IF answer[j] = "sent" THEN "done" ELSE answer[j]]
    /\ UNCHANGED <<process, exit, mine, list, tasks, tunMu, card, bridges, own, todo>>

----------------------------------------------------------------------------
(* LeaveRoom and Disconnect, once the client has left: stop the bridge. *)

Cancel == stopped' = stopped \cup {bridge}

\* Mutant: the context is not cancelled.
LockAndStop_NoCancel ==
    /\ user = "lock" /\ tunMu = None
    /\ IF bridge = None THEN user' = "idle" /\ UNCHANGED tunMu
       ELSE user' = "wait" /\ tunMu' = App
    /\ UNCHANGED <<process, exit, client, tasks, card, bridges, packets>>

\* Mutant: does not look whether there is a bridge to stop.
LockAndStop_Nil ==
    /\ user = "lock" /\ tunMu = None
    /\ user' = "wait" /\ tunMu' = App /\ Cancel
    /\ UNCHANGED <<process, exit, client, tasks, card, bridge, loop, tun, handler, packets>>

\* tunMu is taken; Stop cancels the bridge's context.
LockAndStop ==
    /\ user = "lock" /\ tunMu = None
    /\ IF bridge = None
       THEN user' = "idle" /\ UNCHANGED <<tunMu, stopped>>
       ELSE user' = "wait" /\ tunMu' = App /\ Cancel
    /\ UNCHANGED <<process, exit, client, tasks, card, bridge, loop, tun, handler, packets>>

\* Mutant: Stop does not wait for the outbound loop.
Stopped_NoWait ==
    /\ user = "wait"
    /\ bridge' = None /\ tunMu' = None /\ user' = "idle"
    /\ UNCHANGED <<process, exit, client, tasks, card, loop, tun, stopped, handler, packets>>

\* Mutant: the adapter is closed too, and kept.
Stopped_CloseAdapter ==
    /\ user = "wait" /\ loop[bridge] = "end"
    /\ bridge' = None /\ tunMu' = None /\ user' = "idle"
    /\ session' = session \ {adapter}
    /\ UNCHANGED <<process, exit, client, tasks, adapter, adapters, addr, lastVIP,
                   loop, tun, stopped, handler, packets>>

\* Stop's wg.Wait is over. The client's dataHandler stays as it is.
Stopped ==
    /\ user = "wait" /\ loop[bridge] = "end"
    /\ bridge' = None /\ tunMu' = None /\ user' = "idle"
    /\ UNCHANGED <<process, exit, client, tasks, card, loop, tun, stopped, handler, packets>>

----------------------------------------------------------------------------
(* autoEnsureTun(vip), in a goroutine of its own. *)

Finish(j, result) ==
    /\ ensure' = [ensure EXCEPT ![j] = result] /\ tunMu' = None
    /\ wanted' = [wanted EXCEPT ![j] = None]

Go(j, step) == ensure' = [ensure EXCEPT ![j] = step] /\ UNCHANGED <<tunMu, wanted>>

EnsureLock(j) ==
    /\ ensure[j] = "start" /\ tunMu = None
    /\ ensure' = [ensure EXCEPT ![j] = "held"] /\ tunMu' = j
    /\ UNCHANGED <<process, exit, user, client, wanted, card, bridges, packets>>

\* Case 1: no adapter yet. CreateWinTun fails as a whole when the VIP cannot be
\* set: the adapter is closed again.
EnsureCreate(j) ==
    /\ ensure[j] = "held" /\ adapter = None
    /\ \/ /\ ValidIP(VIPToIP(wanted[j])) /\ adapters < MaxJoins
          /\ adapter' = adapters + 1 /\ adapters' = adapters + 1
          /\ session' = session \cup {adapters + 1}
          /\ addr' = wanted[j] /\ lastVIP' = wanted[j]
          /\ Go(j, "first")
       \/ Finish(j, "failed") /\ UNCHANGED card
    /\ UNCHANGED <<process, exit, user, client, bridges, packets>>

\* Mutant: the VIP alone tells that there is nothing to do.
EnsureReuse_VIPOnly(j) ==
    /\ ensure[j] = "held" /\ adapter # None
    /\ IF lastVIP = wanted[j] THEN Finish(j, "ok") ELSE Go(j, "set")
    /\ UNCHANGED <<process, exit, user, client, card, bridges, packets>>

\* Case 2: nothing to do. Case 3: another VIP, or a bridge that was stopped.
EnsureReuse(j) ==
    /\ ensure[j] = "held" /\ adapter # None
    /\ IF lastVIP = wanted[j]
       THEN IF bridge # None THEN Finish(j, "ok") ELSE Go(j, "bridge")
       ELSE Go(j, "set")
    /\ UNCHANGED <<process, exit, user, client, card, bridges, packets>>

\* A nil adapter is used: shutdown took it away without holding tunMu.
Crash ==
    /\ process' = "crashed"
    /\ UNCHANGED <<exit, user, client, tasks, tunMu, card, bridges, packets>>

\* SetVIP on the adapter kept from before. An address that cannot be parsed
\* changes nothing; a netsh that fails may have changed the address or not.
EnsureSetVIP(j) ==
    /\ ensure[j] = "set"
    /\ IF adapter = None THEN Crash ELSE
       /\ \/ /\ ValidIP(VIPToIP(wanted[j]))
             /\ addr' = wanted[j] /\ lastVIP' = wanted[j]
             /\ Go(j, "bridge")
          \/ /\ addr' \in {addr} \cup {v \in {wanted[j]} : ValidIP(VIPToIP(v))}
             /\ Finish(j, "failed") /\ UNCHANGED lastVIP
       /\ UNCHANGED <<process, exit, user, client, adapter, adapters,
                      session, bridges, packets>>

\* NewBridge: one that was not started yet.
NewBridge == CHOOSE b \in Joins : loop[b] = "none"

\* Bridge.Start.
Start(b) ==
    /\ bridge' = b
    /\ loop' = [loop EXCEPT ![b] = "run"] /\ tun' = [tun EXCEPT ![b] = adapter]
    /\ handler' = b
    /\ UNCHANGED stopped

\* The bridge is started, after case 3 only when there is none; tunMu is
\* released.
EnsureBridge(j) ==
    /\ ensure[j] \in {"bridge", "first"}
    /\ IF adapter = None THEN Crash ELSE
       /\ IF ensure[j] = "first" \/ bridge = None THEN Start(NewBridge)
                                                 ELSE UNCHANGED bridges
       /\ Finish(j, "ok")
       /\ UNCHANGED <<process, exit, user, client, card, packets>>

----------------------------------------------------------------------------
(* The bridge. *)

At(b, here, next) == loop[b] = here /\ loop' = [loop EXCEPT ![b] = next]

\* outboundLoop looks at its context before every packet, and ends.
OutboundLoop(b) ==
    /\ At(b, "run", IF b \in stopped THEN "end" ELSE "read")
    /\ UNCHANGED <<process, exit, user, client, tasks, tunMu, card, bridge, tun,
                   stopped, handler, packets>>

\* ReadPacket has no packet: WinTun does not block, it returns an error.
ReadNothing(b) ==
    /\ At(b, "read", IF b \in stopped THEN "end" ELSE "run")
    /\ UNCHANGED <<process, exit, user, client, tasks, tunMu, card, bridge, tun,
                   stopped, handler, packets>>

\* A packet is read from the adapter; its destination tells what is done.
ReadPacket(b) ==
    /\ tun[b] \in session
    /\ \E ip \in Destinations :
         \/ IsBroadcast(ip) /\ At(b, "read", "own") /\ UNCHANGED todo
         \/ /\ ~IsBroadcast(ip) /\ IsVirtual(ip)
            /\ At(b, "read", "send") /\ todo' = [todo EXCEPT ![b] = {HostNumber(ip)}]
         \/ ~IsBroadcast(ip) /\ ~IsVirtual(ip) /\ At(b, "read", "run") /\ UNCHANGED todo
    /\ UNCHANGED <<process, exit, user, client, tasks, tunMu, card, bridge, tun,
                   stopped, handler, own, owed>>

\* broadcast asks the client for its own VIP ...
GetSelf(b) ==
    /\ At(b, "own", "list")
    /\ own' = [own EXCEPT ![b] = self]
    /\ UNCHANGED <<process, exit, user, client, tasks, tunMu, card, bridge, tun,
                   stopped, handler, todo, owed>>

\* ... then for the list of the others, leaving out whoever has that VIP ...
GetPeers(b) ==
    /\ At(b, "list", "send")
    /\ todo' = [todo EXCEPT ![b] = others \ {own[b]}]
    /\ owed' = [owed EXCEPT ![b] = others \ {own[b]}]
    /\ own' = [own EXCEPT ![b] = None]
    /\ UNCHANGED <<process, exit, user, client, tasks, tunMu, card, bridge, tun,
                   stopped, handler>>

\* Mutant: the first VIP that nobody has any more ends the broadcast.
SendToPeer_GivesUp(b) ==
    /\ \E v \in todo[b] :
         IF v \in others
         THEN /\ todo' = [todo EXCEPT ![b] = @ \ {v}]
              /\ owed' = [owed EXCEPT ![b] = @ \ {v}]
         ELSE todo' = [todo EXCEPT ![b] = {}] /\ UNCHANGED owed
    /\ At(b, "send", "send")
    /\ UNCHANGED <<process, exit, user, client, tasks, tunMu, card, bridge, tun,
                   stopped, handler, own>>

\* ... and hands each one the packet: GetByVIP looks the VIP up in the table as
\* it is by now. That nobody has it is an error nobody looks at.
SendToPeer(b) ==
    /\ \E v \in todo[b] :
         /\ todo' = [todo EXCEPT ![b] = @ \ {v}]
         /\ owed' = IF v \in others THEN [owed EXCEPT ![b] = @ \ {v}] ELSE owed
    /\ At(b, "send", "send")
    /\ UNCHANGED <<process, exit, user, client, tasks, tunMu, card, bridge, tun,
                   stopped, handler, own>>

\* Nobody is left: the loop goes round.
SendDone(b) ==
    /\ todo[b] = {} /\ At(b, "send", "run")
    /\ UNCHANGED <<process, exit, user, client, tasks, tunMu, card, bridge, tun,
                   stopped, handler, packets>>

\* A frame comes in and the client calls its dataHandler, handleInbound of the
\* bridge started last, running or not: WritePacket on a session that has ended
\* is not defined. (On one that lives it changes nothing here.)
handleInbound ==
    /\ handler # None /\ tun[handler] \notin session
    /\ Crash

----------------------------------------------------------------------------
(* The end of the application. *)

\* The tray's quit item; closing the window only hides it.
quitFromTray ==
    /\ ending = "no"
    /\ ending' = "asked"
    /\ UNCHANGED <<process, last, user, client, tasks, tunMu, card, bridges, packets>>

\* shutdown, none of it under tunMu: the bridge of this moment is stopped and
\* waited for, the adapter closed, and only then the client.
ShutdownStop ==
    /\ ending = "asked"
    /\ ending' = "stop" /\ last' = bridge
    /\ IF bridge = None THEN UNCHANGED stopped ELSE Cancel
    /\ UNCHANGED <<process, user, client, tasks, tunMu, card, bridge, loop, tun, handler, packets>>

ShutdownClose ==
    /\ ending = "stop"
    /\ last # None => loop[last] = "end"
    /\ ending' = "close"
    /\ session' = session \ {adapter} /\ adapter' = None
    /\ UNCHANGED <<process, last, user, client, tasks, tunMu, adapters, addr, lastVIP,
                   bridges, packets>>

ShutdownClient ==
    /\ ending = "close"
    /\ ending' = "client" /\ process' = "exited"
    /\ UNCHANGED <<last, user, client, tasks, tunMu, card, bridges, packets>>

----------------------------------------------------------------------------
AppStep == LockAndStop \/ Stopped
EnsureStep(j) ==
    EnsureLock(j) \/ EnsureCreate(j) \/ EnsureReuse(j) \/ EnsureSetVIP(j) \/ EnsureBridge(j)
LoopStep(b) ==
    \/ OutboundLoop(b) \/ ReadNothing(b) \/ ReadPacket(b)
    \/ GetSelf(b) \/ GetPeers(b) \/ SendToPeer(b) \/ SendDone(b)

Next ==
    /\ process = "up"
    /\ \/ \E j \in Joins : JoinRoom(j) \/ HandleRoomStatus(j) \/ onSelfUpdate(j)
       \/ \E v \in VIPs : handlePeerAddress(v) \/ handlePeerLeave(v)
       \/ Leave \/ AppStep
       \/ \E j \in Joins : EnsureStep(j) \/ LoopStep(j)
       \/ handleInbound
       \/ quitFromTray \/ ShutdownStop \/ ShutdownClose \/ ShutdownClient

\* Goroutines run; sync.Mutex lets nobody wait for ever, so the lock asks for
\* strong fairness.
Fairness ==
    /\ SF_vars(process = "up" /\ LockAndStop) /\ WF_vars(process = "up" /\ Stopped)
    /\ \A j \in Joins : /\ SF_vars(process = "up" /\ EnsureLock(j))
                        /\ WF_vars(process = "up" /\ EnsureStep(j))
                        /\ WF_vars(process = "up" /\ LoopStep(j))

Spec == Init /\ [][Next]_vars
FairSpec == Spec /\ Fairness

----------------------------------------------------------------------------
Reading(b) == loop[b] \notin {"none", "end"}

\* At most one goroutine reads the adapter's session at any time: a bridge is
\* only started when the one before has ended (bridge.go:37, app.go:325).
\* (shutdown does not take tunMu and can end with two.)
OneReader ==
    ending = "no" => Cardinality({b \in Joins : Reading(b)}) <= 1

\* The join whose room the user is in.
Current(j) == room /\ answer[j] # "none" /\ \A i \in Joins : i > j => answer[i] = "none"

\* Once the autoEnsureTun of a join has succeeded, the room's packets are bridged
\* until the room is left, whatever the goroutines of earlier joins still do and
\* however often a bridge was stopped before (app.go:293, app.go:323).
JoinBridged ==
    \A j \in Joins :
        ending = "no" /\ Current(j) /\ ensure[j] = "ok" =>
            bridge # None /\ Reading(bridge) /\ bridge \notin stopped

\* app.go:69-70 and app.go:280: getting a VIP is the reliable signal that switches
\* the adapter, on a first join as on a change of room. So once all that was begun
\* for the VIPs the client got is over and succeeded, the adapter has the VIP that
\* the client has for its own. (It need not: the goroutines take tunMu in any
\* order, app.go:72.)
AdapterFollowsRoom ==
    \A j \in Joins :
        /\ ending = "no" /\ Current(j) /\ ensure[j] = "ok" /\ self # None
        /\ \A i \in Joins : /\ answer[i] \in {"none", "done"}
                            /\ ensure[i] \in {"none", "ok"}
        => addr = self

\* Until the application ends nobody meets an adapter that is nil or closed: not
\* autoEnsureTun, not an outbound loop, not the handleInbound the client keeps
\* after its bridge was stopped (app.go:325, bridge.go:93).
BridgeHasAdapter ==
    ending = "no" =>
        /\ process # "crashed"
        /\ \A b \in Joins : Reading(b) \/ handler = b => tun[b] \in session

\* A broadcast leaves nobody out: before the loop takes the next packet, every
\* member it listed and who stayed a member was handed this one, although others
\* come, go and are replaced between the reads (bridge.go:97, bridge.go:102).
BroadcastComplete == \A b \in Joins : loop[b] \in {"run", "read"} => owed[b] = {}

\* LeaveRoom and Disconnect return: the outbound loop notices that it is
\* stopped, and autoEnsureTun gives tunMu back.
LeaveReturns == []<>(user = "idle" \/ process # "up" \/ ending # "no")

----------------------------------------------------------------------------
(* The inductive invariant of the safety properties. *)

\* tunMu is held by who is between its Lock and Unlock, and by nobody else.
LockHeld ==
    /\ \A j \in Joins : ensure[j] \notin {"none", "start", "ok", "failed"} <=> tunMu = j
    /\ user = "wait" <=> tunMu = App

\* Stop waits for a loop that will look at its cancelled context.
StopsBridge == user = "wait" => bridge # None /\ bridge \in stopped

\* A RoomStatus begins one autoEnsureTun, when it is done with.
EnsureOnce == \A j \in Joins : ensure[j] # "none" => answer[j] = "done"

Started == {b \in Joins : loop[b] # "none"}
Ensured == {j \in Joins : answer[j] = "done" /\ ensure[j] \in {"none", "ok", "failed"}}

\* Every bridge was started by an autoEnsureTun that is over.
BridgesCounted == Cardinality(Started) <= Cardinality(Ensured)

\* Until shutdown closes it, the adapter once made stays, and with it its
\* session; every bridge was made for it, and only App.bridge is running.
OneAdapter ==
    /\ process = "up"
    /\ adapter # None => adapter \in session
    /\ adapter = None => bridge = None /\ handler = None
    /\ \A b \in Joins : loop[b] # "none" \/ handler = b => tun[b] = adapter /\ adapter # None
    /\ \A b \in Joins : Reading(b) => b = bridge
    /\ \A j \in Joins : /\ ensure[j] = "first" => bridge = None
                        /\ ensure[j] \in {"set", "bridge", "first"} => adapter # None

\* A loop owes its packet only to members it has still to call SendToPeer for.
OwesOnlySending ==
    \A b \in Joins : /\ owed[b] \subseteq todo[b] \cap others
                     /\ loop[b] # "send" => todo[b] = {}

\* A loop ends because it was told to, and App.bridge is stopped by nobody but
\* the Leave that takes it away.
StoppedLast ==
    /\ \A b \in Joins : loop[b] = "end" => b \in stopped
    /\ \A b \in stopped : b \in Joins /\ loop[b] # "none"
    /\ bridge # None => loop[bridge] # "none"
    /\ bridge \in stopped => user = "wait"
    /\ room => user = "idle"

TunInv ==
    /\ TypeOK /\ LockHeld /\ StopsBridge /\ EnsureOnce /\ BridgesCounted
    /\ OwesOnlySending
    /\ ending = "no" => OneAdapter /\ StoppedLast /\ JoinBridged

============================================================================
