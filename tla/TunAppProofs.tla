---------------------------- MODULE TunAppProofs ----------------------------
(* Theorems about TunApp, for every number of joins, every set of virtual    *)
(* IPs and whatever else is sent to.                                         *)
EXTENDS TunApp, TLAPS, FiniteSetTheorems

-----------------------------------------------------------------------------
(* Lemmas about addresses and counting *)

\* The bridge's decoding of an address undoes VIPToIP, also beyond one byte,
\* where the address is none that an adapter can have.
LEMMA RoundTrip ==
    ASSUME NEW v \in VIPs
    PROVE  /\ HostNumber(VIPToIP(v)) = v
           /\ ~IsBroadcast(VIPToIP(v)) /\ IsVirtual(VIPToIP(v))
<1>1. v \in Nat \ {0}
    BY VIPsAssumption
<1> QED BY <1>1 DEF HostNumber, VIPToIP, IsBroadcast, IsVirtual

LEMMA HostNumberNat ==
    ASSUME NEW ip \in Destinations
    PROVE  HostNumber(ip) \in Nat
<1>1. ASSUME ip \in Strangers  PROVE HostNumber(ip) \in Nat
    <2>1. ip \in [1 .. 4 -> 0 .. 255]
        BY <1>1, StrangersAssumption
    <2>2. ip[3] \in Nat /\ ip[4] \in Nat
        BY <2>1
    <2> QED BY <2>2 DEF HostNumber
<1>2. ASSUME NEW v \in VIPs, ip = VIPToIP(v)  PROVE HostNumber(ip) \in Nat
    BY <1>2, RoundTrip, VIPsAssumption
<1> QED BY <1>1, <1>2 DEF Destinations

LEMMA JoinsFinite == IsFiniteSet(Joins) /\ Cardinality(Joins) = MaxJoins
    BY MaxJoinsAssumption, FS_Interval DEF Joins

LEMMA JoinsNumbers == None \notin Joins /\ App \notin Joins /\ None # App
    BY MaxJoinsAssumption DEF Joins, None, App

\* As long as some autoEnsureTun is not over there is a bridge it can start.
LEMMA NewBridgeExists ==
    ASSUME BridgesCounted, NEW j \in Joins, j \notin Ensured
    PROVE  NewBridge \in Joins /\ loop[NewBridge] = "none"
<1>1. IsFiniteSet(Ensured) /\ IsFiniteSet(Started)
    BY JoinsFinite, FS_Subset DEF Ensured, Started
<1>2. Ensured \subseteq Joins \ {j}
    BY DEF Ensured
<1>3. /\ IsFiniteSet(Joins \ {j})
      /\ Cardinality(Joins \ {j}) = Cardinality(Joins) - 1
    BY JoinsFinite, FS_RemoveElement
<1>4. Cardinality(Ensured) <= Cardinality(Joins) - 1
    BY <1>2, <1>3, FS_Subset
<1>5. Started # Joins
    BY <1>1, <1>4, JoinsFinite, FS_CardinalityType, MaxJoinsAssumption DEF BridgesCounted
<1>6. \E b \in Joins : loop[b] = "none"
    BY <1>5 DEF Started
<1> QED BY <1>6 DEF NewBridge

-----------------------------------------------------------------------------
(* Type correctness *)

LEMMA TypeInit == Init => TypeOK
<1> SUFFICES ASSUME Init  PROVE TypeOK
    OBVIOUS
<1>1. adapters \in 0 .. MaxJoins
    BY MaxJoinsAssumption DEF Init
<1> QED BY <1>1 DEF Init, TypeOK

LEMMA TypeNext == TunInv /\ [Next]_vars => TypeOK'
<1> SUFFICES ASSUME TunInv, [Next]_vars  PROVE TypeOK'
    OBVIOUS
<1> USE DEF TunInv, TypeOK, exit, client, card, bridges, tasks, packets
<1>1. ASSUME NEW j \in Joins, JoinRoom(j)  PROVE TypeOK'
    BY <1>1 DEF JoinRoom
<1>2. ASSUME NEW j \in Joins, HandleRoomStatus(j)  PROVE TypeOK'
    <2>1. CASE Dispatch(j)
        BY <2>1 DEF Dispatch
    <2>2. CASE Reset(j)
        BY <2>2 DEF Reset, Table
    <2>3. CASE SetSelf(j)
        BY <2>3 DEF SetSelf
    <2>4. CASE Upsert(j)
        BY <2>4 DEF Upsert, Table
    <2> QED BY <1>2, <2>1, <2>2, <2>3, <2>4 DEF HandleRoomStatus
<1>3. ASSUME NEW j \in Joins, onSelfUpdate(j)  PROVE TypeOK'
    BY <1>3 DEF onSelfUpdate
<1>4. CASE Leave
    BY <1>4 DEF Leave, Table
<1>5. CASE LockAndStop
    BY <1>5 DEF LockAndStop, Cancel
<1>6. CASE Stopped
    BY <1>6 DEF Stopped
<1>7. ASSUME NEW j \in Joins, EnsureLock(j)  PROVE TypeOK'
    BY <1>7 DEF EnsureLock
<1>8. ASSUME NEW j \in Joins, EnsureCreate(j)  PROVE TypeOK'
    <2>1. CASE UNCHANGED card /\ Finish(j, "failed")
        BY <1>8, <2>1 DEF EnsureCreate, Finish
    <2>2. CASE adapters < MaxJoins /\ adapter' = adapters + 1 /\ adapters' = adapters + 1
        <3>1. adapters + 1 \in Joins /\ adapters + 1 \in 0 .. MaxJoins
            BY <2>2, MaxJoinsAssumption DEF Joins
        <3> QED BY <1>8, <2>2, <3>1 DEF EnsureCreate, Go, Finish
    <2> QED BY <1>8, <2>1, <2>2 DEF EnsureCreate
<1>9. ASSUME NEW j \in Joins, EnsureReuse(j)  PROVE TypeOK'
    BY <1>9 DEF EnsureReuse, Go, Finish
<1>10. CASE Crash
    BY <1>10 DEF Crash
<1>11. ASSUME NEW j \in Joins, EnsureSetVIP(j)  PROVE TypeOK'
    BY <1>10, <1>11 DEF EnsureSetVIP, Go, Finish
<1>12. ASSUME NEW j \in Joins, EnsureBridge(j)  PROVE TypeOK'
    <2>1. NewBridge \in Joins
        BY <1>12, NewBridgeExists DEF EnsureBridge, Ensured
    <2> HIDE DEF NewBridge
    <2> QED BY <1>10, <1>12, <2>1 DEF EnsureBridge, Start, Finish
<1>13. ASSUME NEW b \in Joins, LoopStep(b)  PROVE TypeOK'
    <2>1. CASE OutboundLoop(b) \/ ReadNothing(b) \/ SendDone(b)
        BY <2>1 DEF OutboundLoop, ReadNothing, SendDone, At
    <2>2. CASE ReadPacket(b)
        <3> HIDE DEF HostNumber, IsBroadcast, IsVirtual, Destinations
        <3> QED BY <2>2, HostNumberNat DEF ReadPacket, At
    <2>3. CASE GetSelf(b)
        BY <2>3 DEF GetSelf, At
    <2>4. CASE GetPeers(b)
        <3>1. others \ {own[b]} \in SUBSET Nat /\ others \ {own[b]} \in SUBSET VIPs
            BY VIPsAssumption
        <3> QED BY <2>4, <3>1 DEF GetPeers, At
    <2>5. CASE SendToPeer(b)
        BY <2>5 DEF SendToPeer, At
    <2> QED BY <1>13, <2>1, <2>2, <2>3, <2>4, <2>5 DEF LoopStep
<1>14. CASE handleInbound
    BY <1>10, <1>14 DEF handleInbound
<1>15. CASE quitFromTray \/ ShutdownStop \/ ShutdownClose \/ ShutdownClient
    BY <1>15 DEF quitFromTray, ShutdownStop, ShutdownClose, ShutdownClient, Cancel
<1>16. CASE UNCHANGED vars
    BY <1>16 DEF vars
<1>17. ASSUME NEW v \in VIPs, handlePeerAddress(v) \/ handlePeerLeave(v)
       PROVE  TypeOK'
    BY <1>17 DEF handlePeerAddress, handlePeerLeave, Table
<1> QED BY <1>1, <1>2, <1>3, <1>4, <1>5, <1>6, <1>7, <1>8, <1>9, <1>11, <1>12, <1>13,
           <1>14, <1>15, <1>16, <1>17 DEF Next, AppStep, EnsureStep

-----------------------------------------------------------------------------
(* tunMu, and what happens between its Lock and its Unlock                   *)

\* A RoomStatus begins its autoEnsureTun when nothing else can.
LEMMA OnceNext == TypeOK /\ EnsureOnce /\ [Next]_vars => EnsureOnce'
<1> SUFFICES ASSUME TypeOK, EnsureOnce, [Next]_vars  PROVE EnsureOnce'
    OBVIOUS
<1> USE DEF TypeOK, EnsureOnce, exit, client, card, bridges, tasks, packets
<1>1. ASSUME NEW j \in Joins, JoinRoom(j) \/ HandleRoomStatus(j) \/ onSelfUpdate(j)
      PROVE  EnsureOnce'
    BY <1>1 DEF JoinRoom, HandleRoomStatus, Dispatch, Reset, SetSelf, Upsert, onSelfUpdate
<1>2. CASE Leave
    BY <1>2 DEF Leave
<1>3. ASSUME NEW j \in Joins, EnsureStep(j)
      PROVE  EnsureOnce'
    BY <1>3 DEF EnsureStep, EnsureLock, EnsureCreate, EnsureReuse, EnsureSetVIP,
        EnsureBridge, Go, Finish, Crash
<1>4. CASE UNCHANGED <<ensure, answer>>
    BY <1>4
<1> QED
    BY <1>1, <1>2, <1>3, <1>4
    DEF Next, AppStep, handlePeerAddress, handlePeerLeave, LockAndStop, Stopped,
        LoopStep, At, OutboundLoop, ReadNothing, ReadPacket, GetSelf, GetPeers,
        SendToPeer, SendDone, handleInbound, Crash, quitFromTray, ShutdownStop,
        ShutdownClose, ShutdownClient, vars

\* Whatever is done, tunMu is held by who is between Lock and Unlock.
LEMMA LockNext == TypeOK /\ EnsureOnce /\ LockHeld /\ [Next]_vars => LockHeld'
<1> SUFFICES ASSUME TypeOK, EnsureOnce, LockHeld, [Next]_vars  PROVE LockHeld'
    OBVIOUS
<1> USE JoinsNumbers DEF TypeOK, LockHeld, exit, client, card, bridges, tasks, packets
<1>1. ASSUME NEW j \in Joins, onSelfUpdate(j)  PROVE LockHeld'
    BY <1>1 DEF onSelfUpdate, EnsureOnce
<1>2. CASE Leave
    BY <1>2 DEF Leave
<1>3. CASE LockAndStop
    BY <1>3 DEF LockAndStop
<1>4. CASE Stopped
    BY <1>4 DEF Stopped
<1>5. ASSUME NEW j \in Joins, EnsureLock(j)  PROVE LockHeld'
    BY <1>5 DEF EnsureLock
<1>6. ASSUME NEW j \in Joins,
             EnsureCreate(j) \/ EnsureReuse(j) \/ EnsureSetVIP(j) \/ EnsureBridge(j)
      PROVE  LockHeld'
    BY <1>6 DEF EnsureCreate, EnsureReuse, EnsureSetVIP, EnsureBridge, Go, Finish, Crash
<1>7. CASE UNCHANGED <<ensure, tunMu, user>>
    BY <1>7
<1> QED
    BY <1>1, <1>2, <1>3, <1>4, <1>5, <1>6, <1>7
    DEF Next, AppStep, JoinRoom, HandleRoomStatus, Dispatch, Reset, SetSelf, Upsert,
        handlePeerAddress, handlePeerLeave, EnsureStep, LoopStep, At, OutboundLoop,
        ReadNothing, ReadPacket, GetSelf, GetPeers, SendToPeer, SendDone,
        handleInbound, Crash, quitFromTray, ShutdownStop, ShutdownClose,
        ShutdownClient, vars

\* While Stop waits, the bridge stays App.bridge and stopped.
LEMMA StopNext == TypeOK /\ LockHeld /\ StopsBridge /\ [Next]_vars => StopsBridge'
<1> SUFFICES ASSUME TypeOK, LockHeld, StopsBridge, [Next]_vars  PROVE StopsBridge'
    OBVIOUS
<1> USE JoinsNumbers DEF TypeOK, StopsBridge, exit, client, card, bridges, tasks, packets
<1>1. CASE Leave
    BY <1>1 DEF Leave
<1>2. CASE LockAndStop
    BY <1>2 DEF LockAndStop, Cancel
<1>3. CASE Stopped
    BY <1>3 DEF Stopped
<1>4. ASSUME NEW j \in Joins, EnsureBridge(j)  PROVE StopsBridge'
    <2>1. user # "wait" /\ user' = user
        BY <1>4 DEF EnsureBridge, LockHeld, Crash
    <2> QED BY <2>1
<1>5. CASE ShutdownStop
    BY <1>5 DEF ShutdownStop, Cancel
<1>6. CASE UNCHANGED <<bridge, stopped, user>>
    BY <1>6
<1> QED
    BY <1>1, <1>2, <1>3, <1>4, <1>5, <1>6
    DEF Next, AppStep, JoinRoom, HandleRoomStatus, Dispatch, Reset, SetSelf, Upsert,
        handlePeerAddress, handlePeerLeave, onSelfUpdate, EnsureStep, EnsureLock,
        EnsureCreate, EnsureReuse, EnsureSetVIP, LoopStep, At, OutboundLoop, ReadNothing,
        ReadPacket, GetSelf, GetPeers, SendToPeer, SendDone,
        handleInbound, Crash, quitFromTray, ShutdownClose, ShutdownClient, vars

-----------------------------------------------------------------------------
(* The bridges that were started *)

LEMMA StartedFinite == IsFiniteSet(Started) /\ IsFiniteSet(Ensured)
    BY JoinsFinite, FS_Subset DEF Started, Ensured

\* No new bridge, and nothing takes back that an autoEnsureTun is over.
LEMMA CountKept ==
    ASSUME BridgesCounted, Started' \subseteq Started, Ensured \subseteq Ensured',
           IsFiniteSet(Ensured')
    PROVE  BridgesCounted'
<1>1. Cardinality(Started') <= Cardinality(Started)
    BY StartedFinite, FS_Subset
<1>2. Cardinality(Ensured) <= Cardinality(Ensured')
    BY FS_Subset
<1>3. /\ Cardinality(Started') \in Nat /\ Cardinality(Started) \in Nat
      /\ Cardinality(Ensured) \in Nat /\ Cardinality(Ensured') \in Nat
    BY StartedFinite, FS_Subset, FS_CardinalityType
<1> QED BY <1>1, <1>2, <1>3 DEF BridgesCounted

\* The autoEnsureTun that starts a bridge is over then.
LEMMA CountStart ==
    ASSUME BridgesCounted, NEW j, j \notin Ensured, NEW b, b \notin Started,
           Started' = Started \cup {b}, Ensured' = Ensured \cup {j}
    PROVE  BridgesCounted'
<1>1. Cardinality(Started') = Cardinality(Started) + 1
    BY StartedFinite, FS_AddElement
<1>2. Cardinality(Ensured') = Cardinality(Ensured) + 1
    BY StartedFinite, FS_AddElement
<1>3. Cardinality(Started) \in Nat /\ Cardinality(Ensured) \in Nat
    BY StartedFinite, FS_CardinalityType
<1> QED BY <1>1, <1>2, <1>3 DEF BridgesCounted

LEMMA CountNext ==
    TypeOK /\ EnsureOnce /\ BridgesCounted /\ [Next]_vars => BridgesCounted'
<1> SUFFICES ASSUME TypeOK, EnsureOnce, BridgesCounted, [Next]_vars  PROVE BridgesCounted'
    OBVIOUS
<1> USE DEF TypeOK, exit, client, card, bridges, tasks, packets
<1>1. IsFiniteSet(Ensured')
    BY JoinsFinite, FS_Subset DEF Ensured
<1>2. ASSUME NEW j \in Joins, JoinRoom(j) \/ HandleRoomStatus(j) \/ onSelfUpdate(j)
      PROVE  Started' = Started /\ Ensured \subseteq Ensured'
    BY <1>2 DEF JoinRoom, HandleRoomStatus, Dispatch, Reset, SetSelf, Upsert, onSelfUpdate,
                Started, Ensured
<1>3. CASE Leave
    <2>1. Started' = Started /\ Ensured \subseteq Ensured'
        BY <1>3 DEF Leave, Started, Ensured
    <2> QED BY <1>1, <2>1, CountKept
<1>4. ASSUME NEW j \in Joins,
             EnsureLock(j) \/ EnsureCreate(j) \/ EnsureReuse(j) \/ EnsureSetVIP(j)
      PROVE  Started' = Started /\ Ensured \subseteq Ensured'
    BY <1>4 DEF EnsureLock, EnsureCreate, EnsureReuse, EnsureSetVIP, Go, Finish, Crash,
                Started, Ensured
<1>5. ASSUME NEW j \in Joins, EnsureBridge(j)  PROVE BridgesCounted'
    <2>1. j \notin Ensured /\ answer[j] = "done"
        BY <1>5 DEF EnsureBridge, Ensured, EnsureOnce
    <2>2. CASE UNCHANGED <<loop, ensure, answer>>
        BY <1>1, <2>2, CountKept DEF Started, Ensured
    <2>3. CASE UNCHANGED <<loop, answer>> /\ Finish(j, "ok")
        <3>1. Started' = Started /\ Ensured \subseteq Ensured'
            BY <2>3 DEF Finish, Started, Ensured
        <3> QED BY <1>1, <3>1, CountKept
    <2>4. CASE Start(NewBridge) /\ Finish(j, "ok") /\ UNCHANGED answer
        <3>1. PICK b \in Joins : b = NewBridge /\ loop[b] = "none"
            BY <2>1, NewBridgeExists
        <3>2. loop' = [loop EXCEPT ![b] = "run"] /\ ensure' = [ensure EXCEPT ![j] = "ok"]
            BY <2>4, <3>1 DEF Start, Finish
        <3>3. b \notin Started /\ Started' = Started \cup {b}
            BY <3>1, <3>2 DEF Started
        <3>4. Ensured' = Ensured \cup {j}
            BY <2>1, <2>4, <3>2 DEF Ensured
        <3> QED BY <2>1, <3>3, <3>4, CountStart
    <2> HIDE DEF NewBridge
    <2> QED BY <1>5, <2>2, <2>3, <2>4 DEF EnsureBridge, Crash
<1>6. ASSUME NEW b \in Joins, LoopStep(b)
      PROVE  Started' = Started /\ Ensured \subseteq Ensured'
    BY <1>6 DEF LoopStep, At, OutboundLoop, ReadNothing,
        ReadPacket, GetSelf, GetPeers, SendToPeer, SendDone, Started, Ensured
<1>7. CASE UNCHANGED <<ensure, answer, loop>>
    BY <1>1, <1>7, CountKept DEF Started, Ensured
<1>8. ASSUME Started' = Started, Ensured \subseteq Ensured'  PROVE BridgesCounted'
    BY <1>1, <1>8, CountKept
<1> QED
    BY <1>2, <1>3, <1>4, <1>5, <1>6, <1>7, <1>8
    DEF Next, AppStep, handlePeerAddress, handlePeerLeave, LockAndStop, Stopped,
        EnsureStep, handleInbound, Crash, quitFromTray, ShutdownStop, ShutdownClose,
        ShutdownClient, vars

-----------------------------------------------------------------------------
(* The adapter and the bridges                                               *)

\* The application does not begin to end by itself.
LEMMA StillUp == [Next]_vars /\ ending' = "no" => ending = "no"
    BY DEF Next, AppStep, JoinRoom, HandleRoomStatus, Dispatch, Reset, SetSelf,
        Upsert, handlePeerAddress, handlePeerLeave, onSelfUpdate, Leave,
        LockAndStop, Stopped, EnsureStep, EnsureLock, EnsureCreate, EnsureReuse,
        EnsureSetVIP, EnsureBridge, LoopStep, At, OutboundLoop, ReadNothing,
        ReadPacket, GetSelf, GetPeers, SendToPeer, SendDone, handleInbound, Crash,
        quitFromTray, ShutdownStop, ShutdownClose, ShutdownClient, vars, exit

LEMMA OneAdapterNext ==
    TunInv /\ [Next]_vars => (ending = "no" => OneAdapter)'
<1> SUFFICES ASSUME TunInv, [Next]_vars, ending' = "no"  PROVE OneAdapter'
    OBVIOUS
<1> USE JoinsNumbers DEF TypeOK, exit, client, card, bridges, tasks, packets
<1>1. ending = "no" /\ OneAdapter /\ TypeOK /\ LockHeld
    BY StillUp DEF TunInv
<1>2. CASE UNCHANGED <<process, adapter, session, bridges, ensure>>
    BY <1>1, <1>2 DEF OneAdapter, Reading
<1>3. ASSUME NEW j \in Joins, onSelfUpdate(j)  PROVE OneAdapter'
    BY <1>1, <1>3 DEF onSelfUpdate, OneAdapter, Reading
<1>4. CASE LockAndStop
    BY <1>1, <1>4 DEF LockAndStop, OneAdapter, Reading
<1>5. CASE Stopped
    <2>1. \A b \in Joins : ~Reading(b)
        BY <1>1, <1>5 DEF Stopped, OneAdapter, Reading
    <2> QED BY <1>1, <1>5, <2>1 DEF Stopped, OneAdapter, Reading
<1>6. ASSUME NEW j \in Joins, EnsureLock(j)  PROVE OneAdapter'
    BY <1>1, <1>6 DEF EnsureLock, OneAdapter, Reading
<1>7. ASSUME NEW j \in Joins, EnsureCreate(j)  PROVE OneAdapter'
    <2>1. CASE Finish(j, "failed") /\ UNCHANGED card
        BY <1>1, <1>7, <2>1 DEF EnsureCreate, Finish, OneAdapter, Reading
    <2>2. CASE /\ adapter' = adapters + 1 /\ session' = session \cup {adapters + 1}
               /\ ensure' = [ensure EXCEPT ![j] = "first"]
        <3>1. adapter = None /\ bridge = None /\ handler = None /\ adapter' # None
            BY <1>1, <1>7, <2>2 DEF EnsureCreate, OneAdapter, None
        <3>2. \A b \in Joins : loop[b] = "none"
            BY <1>1, <3>1 DEF OneAdapter
        <3>3. UNCHANGED <<process, bridges>>
            BY <1>7 DEF EnsureCreate
        <3> QED BY <1>1, <2>2, <3>1, <3>2, <3>3 DEF OneAdapter, Reading
    <2> QED BY <1>7, <2>1, <2>2 DEF EnsureCreate, Go
<1>8. ASSUME NEW j \in Joins, EnsureReuse(j)  PROVE OneAdapter'
    BY <1>1, <1>8 DEF EnsureReuse, Go, Finish, OneAdapter, Reading
<1>9. ASSUME NEW j \in Joins, EnsureSetVIP(j)  PROVE OneAdapter'
    BY <1>1, <1>9 DEF EnsureSetVIP, Go, Finish, OneAdapter, Reading
<1>10. ASSUME NEW j \in Joins, EnsureBridge(j)  PROVE OneAdapter'
    <2>1. adapter # None /\ Finish(j, "ok") /\ UNCHANGED <<process, card>>
        BY <1>1, <1>10 DEF EnsureBridge, OneAdapter
    <2>2. CASE UNCHANGED bridges
        BY <1>1, <2>1, <2>2 DEF Finish, OneAdapter, Reading
    <2>3. CASE Start(NewBridge) /\ bridge = None
        <3>1. NewBridge \in Joins
            BY <1>10, NewBridgeExists DEF TunInv, EnsureBridge, Ensured
        <3>2. \A b \in Joins : ~Reading(b)
            BY <1>1, <2>3 DEF OneAdapter
        <3>3. \A i \in Joins : ensure'[i] # "first"
            BY <1>1, <1>10, <2>1 DEF Finish, LockHeld, EnsureBridge
        <3> HIDE DEF NewBridge
        <3> QED BY <1>1, <2>1, <2>3, <3>1, <3>2, <3>3 DEF Start, Finish, OneAdapter, Reading
    <2>4. ensure[j] = "first" => bridge = None
        BY <1>1 DEF OneAdapter
    <2> HIDE DEF NewBridge, bridges
    <2> QED BY <1>10, <2>1, <2>2, <2>3, <2>4 DEF EnsureBridge
<1>11. ASSUME NEW b \in Joins, LoopStep(b)  PROVE OneAdapter'
    <2>1. /\ Reading(b)
          /\ \E e : e # "none" /\ loop' = [loop EXCEPT ![b] = e]
          /\ UNCHANGED <<process, adapter, session, bridge, tun, handler, ensure>>
        BY <1>11 DEF LoopStep, At, OutboundLoop, ReadNothing,
        ReadPacket, GetSelf, GetPeers, SendToPeer, SendDone, Reading
    <2> QED BY <1>1, <2>1 DEF OneAdapter, Reading
<1>12. ~handleInbound
    BY <1>1 DEF handleInbound, OneAdapter
<1> QED
    BY <1>1, <1>2, <1>3, <1>4, <1>5, <1>6, <1>7, <1>8, <1>9, <1>10, <1>11, <1>12
    DEF Next, AppStep, JoinRoom, HandleRoomStatus, Dispatch, Reset, SetSelf, Upsert,
        handlePeerAddress, handlePeerLeave, Leave, EnsureStep, quitFromTray, ShutdownStop,
        ShutdownClose, ShutdownClient, vars

-----------------------------------------------------------------------------
(* What the outbound loops send                                              *)

\* The bridge that an autoEnsureTun starts is a new one.
LEMMA StartsNew ==
    ASSUME TypeOK, EnsureOnce, BridgesCounted, NEW j \in Joins, EnsureBridge(j),
           ~UNCHANGED bridges
    PROVE  /\ Start(NewBridge) /\ NewBridge \in Joins /\ loop[NewBridge] = "none"
           /\ ensure' = [ensure EXCEPT ![j] = "ok"]
<1>1. Start(NewBridge) /\ Finish(j, "ok")
    BY DEF EnsureBridge, Crash
<1>2. j \notin Ensured
    BY DEF EnsureBridge, Ensured
<1>3. NewBridge \in Joins /\ loop[NewBridge] = "none"
    BY <1>2, NewBridgeExists
<1> QED BY <1>1, <1>3 DEF Finish

\* Packets are owed to members only, to whom the loop has yet to send.
LEMMA OwesNext ==
    TypeOK /\ EnsureOnce /\ BridgesCounted /\ OwesOnlySending /\ [Next]_vars
        => OwesOnlySending'
<1> SUFFICES ASSUME TypeOK, EnsureOnce, BridgesCounted, OwesOnlySending, [Next]_vars
             PROVE  OwesOnlySending'
    OBVIOUS
<1> USE DEF TypeOK, OwesOnlySending, exit, client, card, bridges, tasks, packets
<1>1. ASSUME NEW S, Table(S), UNCHANGED <<todo, loop>>  PROVE OwesOnlySending'
    BY <1>1 DEF Table
<1>2. ASSUME NEW b \in Joins, LoopStep(b)  PROVE OwesOnlySending'
    <2>1. CASE OutboundLoop(b) \/ ReadNothing(b) \/ SendDone(b) \/ GetSelf(b)
        BY <2>1 DEF OutboundLoop, ReadNothing, SendDone, GetSelf, At
    <2>2. CASE ReadPacket(b)
        <3>1. UNCHANGED <<owed, others>> /\ todo[b] = {} /\ owed[b] = {}
            BY <2>2 DEF ReadPacket, At
        <3>2. \A c \in Joins \ {b} : todo'[c] = todo[c] /\ loop'[c] = loop[c]
            BY <2>2 DEF ReadPacket, At
        <3>3. loop'[b] # "send" => todo'[b] = {}
            BY <2>2, <3>1 DEF ReadPacket, At
        <3> QED BY <3>1, <3>2, <3>3
    <2>3. CASE GetPeers(b)
        BY <2>3 DEF GetPeers, At
    <2>4. CASE SendToPeer(b)
        BY <2>4 DEF SendToPeer, At
    <2> QED BY <1>2, <2>1, <2>2, <2>3, <2>4 DEF LoopStep
<1>3. ASSUME NEW j \in Joins, EnsureBridge(j), ~UNCHANGED bridges
      PROVE  OwesOnlySending'
    <2>1. UNCHANGED <<todo, owed, others>>
        BY <1>3 DEF EnsureBridge, Crash
    <2>2. PICK b \in Joins : b = NewBridge /\ loop[b] = "none"
        BY <1>3, StartsNew
    <2>3. loop' = [loop EXCEPT ![b] = "run"]
        BY <1>3, <2>2, StartsNew DEF Start
    <2> QED BY <2>1, <2>2, <2>3
<1>4. CASE UNCHANGED <<others, loop, todo, owed>>
    BY <1>4
<1>5. ASSUME NEW j \in Joins, HandleRoomStatus(j)  PROVE OwesOnlySending'
    BY <1>1, <1>4, <1>5 DEF HandleRoomStatus, Dispatch, Reset, SetSelf, Upsert
<1>6. ASSUME NEW v \in VIPs, handlePeerAddress(v) \/ handlePeerLeave(v)
      PROVE  OwesOnlySending'
    BY <1>1, <1>6 DEF handlePeerAddress, handlePeerLeave
<1>7. CASE Leave
    BY <1>1, <1>7 DEF Leave
<1>8. ASSUME NEW j \in Joins, EnsureStep(j)  PROVE OwesOnlySending'
    BY <1>3, <1>4, <1>8
    DEF EnsureStep, EnsureLock, EnsureCreate, EnsureReuse, EnsureSetVIP, EnsureBridge, Crash
<1> QED
    BY <1>2, <1>4, <1>5, <1>6, <1>7, <1>8
    DEF Next, AppStep, JoinRoom, onSelfUpdate, LockAndStop, Stopped, handleInbound, Crash,
        quitFromTray, ShutdownStop, ShutdownClose, ShutdownClient, vars

-----------------------------------------------------------------------------
(* Which bridges are stopped, and that a joined room has one that is not     *)

LEMMA StoppedNext ==
    TunInv /\ [Next]_vars => (ending = "no" => StoppedLast)'
<1> SUFFICES ASSUME TunInv, [Next]_vars, ending' = "no"  PROVE StoppedLast'
    OBVIOUS
<1> USE JoinsNumbers DEF TypeOK, exit, client, card, bridges, tasks, packets
<1>1. StoppedLast /\ TypeOK /\ EnsureOnce /\ BridgesCounted
    BY StillUp DEF TunInv
<1>2. CASE UNCHANGED <<bridge, loop, stopped, user, room>>
    BY <1>1, <1>2 DEF StoppedLast
<1>3. ASSUME NEW j \in Joins, JoinRoom(j)  PROVE StoppedLast'
    BY <1>1, <1>3 DEF JoinRoom, StoppedLast
<1>4. CASE Leave
    BY <1>1, <1>4 DEF Leave, StoppedLast
<1>5. CASE LockAndStop
    BY <1>1, <1>5 DEF LockAndStop, Cancel, StoppedLast
<1>6. CASE Stopped
    BY <1>1, <1>6 DEF Stopped, StoppedLast
<1>7. ASSUME NEW j \in Joins, EnsureBridge(j), ~UNCHANGED bridges  PROVE StoppedLast'
    <2>1. PICK b \in Joins : b = NewBridge /\ loop[b] = "none"
        BY <1>1, <1>7, StartsNew
    <2>2. bridge' = b /\ loop' = [loop EXCEPT ![b] = "run"] /\ UNCHANGED stopped
        BY <1>1, <1>7, <2>1, StartsNew DEF Start
    <2>3. UNCHANGED <<user, room>>
        BY <1>7 DEF EnsureBridge, Crash
    <2> QED BY <1>1, <2>1, <2>2, <2>3 DEF StoppedLast
<1>8. ASSUME NEW j \in Joins, EnsureStep(j)  PROVE StoppedLast'
    BY <1>2, <1>7, <1>8
    DEF EnsureStep, EnsureLock, EnsureCreate, EnsureReuse, EnsureSetVIP, EnsureBridge, Crash
<1>9. ASSUME NEW b \in Joins, LoopStep(b)  PROVE StoppedLast'
    <2>1. /\ Reading(b) /\ UNCHANGED <<bridge, stopped, user, room>>
          /\ \E e : /\ e # "none" /\ loop' = [loop EXCEPT ![b] = e]
                    /\ e = "end" => b \in stopped
        BY <1>9 DEF LoopStep, At, OutboundLoop, ReadNothing, ReadPacket, GetSelf, GetPeers,
                    SendToPeer, SendDone, Reading
    <2> QED BY <1>1, <2>1 DEF StoppedLast, Reading
<1> QED
    BY <1>2, <1>3, <1>4, <1>5, <1>6, <1>8, <1>9
    DEF Next, AppStep, HandleRoomStatus, Dispatch, Reset, SetSelf, Upsert,
        handlePeerAddress, handlePeerLeave, onSelfUpdate, handleInbound, Crash,
        quitFromTray, ShutdownStop, ShutdownClose, ShutdownClient, vars

\* Whoever holds tunMu in an autoEnsureTun finds no bridge, or one that runs.
LEMMA BridgeRuns ==
    ASSUME TypeOK, LockHeld, StoppedLast, NEW j \in Joins, tunMu = j, bridge # None
    PROVE  Reading(bridge) /\ bridge \notin stopped
<1>1. user # "wait" /\ bridge \in Joins
    BY JoinsNumbers DEF LockHeld, TypeOK
<1> QED BY <1>1 DEF StoppedLast, Reading

LEMMA JoinBridgedNext ==
    TunInv /\ [Next]_vars => (ending = "no" => JoinBridged)'
<1> SUFFICES ASSUME TunInv, [Next]_vars, ending' = "no"  PROVE JoinBridged'
    OBVIOUS
<1> USE JoinsNumbers DEF TypeOK, exit, client, card, bridges, tasks, packets
<1>1. /\ ending = "no" /\ JoinBridged /\ StoppedLast /\ TypeOK /\ LockHeld /\ EnsureOnce
      /\ BridgesCounted
    BY StillUp DEF TunInv
<1>2. ASSUME UNCHANGED <<bridge, loop, stopped, room>>,
             \A i \in Joins : answer'[i] # "none" <=> answer[i] # "none",
             \A i \in Joins : ensure'[i] = "ok" => ensure[i] = "ok"
      PROVE  JoinBridged'
    BY <1>1, <1>2 DEF JoinBridged, Current, Reading
<1>3. ASSUME NEW j \in Joins, JoinRoom(j)  PROVE JoinBridged'
    <2>1. /\ answer' = [answer EXCEPT ![j] = "sent"] /\ UNCHANGED ensure
          /\ answer[j] = "none" /\ \A i \in Joins \ {j} : answer[i] # "none" <=> i < j
        BY <1>3 DEF JoinRoom
    <2>2. ensure'[j] = "none"
        BY <1>1, <2>1 DEF EnsureOnce
    <2>3. ASSUME NEW i \in Joins, Current(i)'  PROVE i = j
        <3>1. j \in Nat /\ i \in Nat /\ answer'[j] = "sent"
            BY <1>1, <2>1, MaxJoinsAssumption DEF Joins
        <3>2. i # j => answer[i] # "none" /\ ~(j > i)
            BY <2>1, <2>3, <3>1 DEF Current
        <3> QED BY <2>1, <3>1, <3>2
    <2> QED BY <2>2, <2>3 DEF JoinBridged
<1>4. CASE room' = FALSE
    BY <1>4 DEF JoinBridged, Current
<1>5. ASSUME NEW j \in Joins, HandleRoomStatus(j) \/ onSelfUpdate(j)  PROVE JoinBridged'
    <2>1. UNCHANGED <<bridge, loop, stopped, room>>
        BY <1>5 DEF HandleRoomStatus, Dispatch, Reset, SetSelf, Upsert, onSelfUpdate
    <2>2. \A i \in Joins : answer'[i] # "none" <=> answer[i] # "none"
        BY <1>1, <1>5 DEF HandleRoomStatus, Dispatch, Reset, SetSelf, Upsert, onSelfUpdate
    <2>3. \A i \in Joins : ensure'[i] = "ok" => ensure[i] = "ok"
        BY <1>1, <1>5 DEF HandleRoomStatus, Dispatch, Reset, SetSelf, Upsert, onSelfUpdate
    <2> QED BY <1>2, <2>1, <2>2, <2>3
<1>6. CASE Leave \/ AppStep
    BY <1>1, <1>4, <1>6 DEF Leave, AppStep, LockAndStop, Stopped, StoppedLast
<1>7. ASSUME NEW j \in Joins, EnsureReuse(j)  PROVE JoinBridged'
    <2>1. CASE bridge = None
        <3>1. UNCHANGED <<bridges, client>>
            BY <1>7 DEF EnsureReuse
        <3>2. \E e \in {"bridge", "set"} : ensure' = [ensure EXCEPT ![j] = e]
            BY <1>7, <2>1 DEF EnsureReuse, Go
        <3> QED BY <1>2, <3>1, <3>2
    <2>2. CASE bridge # None
        <3>1. tunMu = j /\ UNCHANGED bridges
            BY <1>1, <1>7 DEF EnsureReuse, LockHeld
        <3>2. Reading(bridge) /\ bridge \notin stopped
            BY <1>1, <2>2, <3>1, BridgeRuns
        <3> QED BY <2>2, <3>1, <3>2 DEF JoinBridged, Reading
    <2> QED BY <2>1, <2>2
<1>8. ASSUME NEW j \in Joins, EnsureBridge(j)  PROVE JoinBridged'
    <2>1. CASE UNCHANGED bridges /\ bridge # None
        <3>1. tunMu = j
            BY <1>1, <1>8 DEF EnsureBridge, LockHeld
        <3>2. Reading(bridge) /\ bridge \notin stopped
            BY <1>1, <2>1, <3>1, BridgeRuns
        <3> QED BY <2>1, <3>2 DEF JoinBridged, Reading
    <2>2. CASE ~UNCHANGED bridges
        <3>1. PICK b \in Joins : b = NewBridge /\ loop[b] = "none"
            BY <1>1, <1>8, <2>2, StartsNew
        <3>2. bridge' = b /\ loop' = [loop EXCEPT ![b] = "run"] /\ UNCHANGED stopped
            BY <1>1, <1>8, <2>2, <3>1, StartsNew DEF Start
        <3>3. b \notin stopped
            BY <1>1, <3>1 DEF StoppedLast
        <3>4. bridge' # None /\ loop'[bridge'] = "run" /\ bridge' \notin stopped'
            BY <1>1, <3>1, <3>2, <3>3
        <3> QED BY <3>4 DEF JoinBridged, Reading
    <2>3. CASE UNCHANGED bridges /\ bridge = None
        <3>1. Crash \/ Start(NewBridge)
            BY <1>8, <2>3 DEF EnsureBridge
        <3>2. CASE Crash
            BY <1>2, <3>2 DEF Crash
        <3>3. CASE Start(NewBridge)
            <4>1. \A b : Start(b) => bridge' = b
                BY DEF Start
            <4>2. NewBridge \in Joins
                BY <1>1, <1>8, NewBridgeExists DEF EnsureBridge, Ensured
            <4> QED BY <2>3, <3>3, <4>1, <4>2
        <3> QED BY <3>1, <3>2, <3>3
    <2> QED BY <2>1, <2>2, <2>3
<1>9. ASSUME NEW j \in Joins, EnsureLock(j) \/ EnsureCreate(j) \/ EnsureSetVIP(j)
      PROVE  JoinBridged'
    <2>1. UNCHANGED <<bridges, client>>
        BY <1>9 DEF EnsureLock, EnsureCreate, EnsureSetVIP, Crash
    <2>2. UNCHANGED ensure \/ \E e \in {"held", "first", "bridge", "failed"} :
                                 ensure' = [ensure EXCEPT ![j] = e]
        BY <1>9 DEF EnsureLock, EnsureCreate, EnsureSetVIP, Go, Finish, Crash
    <2> QED BY <1>1, <1>2, <2>1, <2>2
<1>10. ASSUME NEW b \in Joins, LoopStep(b)  PROVE JoinBridged'
    <2>1. /\ Reading(b) /\ UNCHANGED <<bridge, stopped, room, answer, ensure>>
          /\ \E e : /\ e # "none" /\ loop' = [loop EXCEPT ![b] = e]
                    /\ e = "end" => b \in stopped
        BY <1>10 DEF LoopStep, At, OutboundLoop, ReadNothing, ReadPacket, GetSelf, GetPeers,
                     SendToPeer, SendDone, Reading
    <2> QED BY <1>1, <2>1 DEF JoinBridged, Current, Reading
<1>11. CASE UNCHANGED <<bridge, loop, stopped, room, answer, ensure>>
    BY <1>2, <1>11
<1> QED
    BY <1>1, <1>3, <1>5, <1>6, <1>7, <1>8, <1>9, <1>10, <1>11
    DEF Next, EnsureStep, handlePeerAddress, handlePeerLeave, handleInbound, Crash,
        quitFromTray, ShutdownStop, ShutdownClose, ShutdownClient, vars

-----------------------------------------------------------------------------
(* The theorems                                                              *)

LEMMA TunInit == Init => TunInv
<1> SUFFICES ASSUME Init  PROVE TunInv
    OBVIOUS
<1>1. Started = {} /\ Ensured = {}
    BY DEF Init, Started, Ensured
<1>2. BridgesCounted
    BY <1>1, FS_EmptySet DEF BridgesCounted
<1>3. LockHeld /\ StopsBridge /\ EnsureOnce /\ OneAdapter
    BY JoinsNumbers DEF Init, LockHeld, StopsBridge, EnsureOnce, OneAdapter, Reading
<1>4. OwesOnlySending /\ StoppedLast /\ JoinBridged
    BY DEF Init, OwesOnlySending, StoppedLast, JoinBridged, Current
<1> QED BY <1>2, <1>3, <1>4, TypeInit DEF TunInv

LEMMA TunNext == TunInv /\ [Next]_vars => TunInv'
    BY TypeNext, OnceNext, LockNext, StopNext, CountNext, OwesNext, OneAdapterNext,
       StoppedNext, JoinBridgedNext DEF TunInv

\* The inductive invariant: tunMu, the one adapter, and the bridges on it.
THEOREM TunInvCorrect == Spec => []TunInv
    BY TunInit, TunNext, PTL DEF Spec

\* The types of the variables.
THEOREM TunTypeCorrect == Spec => []TypeOK
<1>1. TunInv => TypeOK
    BY DEF TunInv
<1> QED BY <1>1, TunInvCorrect, PTL

\* However often a room is joined and left, one goroutine at most reads the
\* adapter.
THEOREM OneReaderCorrect == Spec => []OneReader
<1>1. TunInv => OneReader
    <2> SUFFICES ASSUME TunInv, ending = "no"
                 PROVE  Cardinality({b \in Joins : Reading(b)}) <= 1
        BY DEF OneReader
    <2>1. {b \in Joins : Reading(b)} \subseteq {bridge}
        BY DEF TunInv, OneAdapter
    <2>2. IsFiniteSet({bridge}) /\ Cardinality({bridge}) = 1
        BY FS_Singleton
    <2> QED BY <2>1, <2>2, FS_Subset
<1> QED BY <1>1, TunInvCorrect, PTL

\* A join whose autoEnsureTun succeeded has its packets bridged.
THEOREM JoinBridgedCorrect == Spec => []JoinBridged
<1>1. TunInv => JoinBridged
    BY DEF TunInv, JoinBridged
<1> QED BY <1>1, TunInvCorrect, PTL

\* Nobody meets a nil or closed adapter before the application ends.
THEOREM AdapterCorrect == Spec => []BridgeHasAdapter
<1>1. TunInv => BridgeHasAdapter
    BY DEF TunInv, OneAdapter, BridgeHasAdapter, Reading
<1> QED BY <1>1, TunInvCorrect, PTL

\* A broadcast is handed on for every member it listed and who stayed.
THEOREM BroadcastCorrect == Spec => []BroadcastComplete
<1>1. TunInv => BroadcastComplete
    BY DEF TunInv, OwesOnlySending, BroadcastComplete
<1> QED BY <1>1, TunInvCorrect, PTL
=============================================================================
