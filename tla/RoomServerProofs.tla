-------------------------- MODULE RoomServerProofs --------------------------
(* Theorems about RoomServer, for every number of clients, rooms, packets in *)
(* progress and registrations.                                               *)
EXTENDS RoomServerInv, TLAPS, FiniteSetTheorems, WellFoundedInduction

-----------------------------------------------------------------------------
(* Lemmas about packets and the VIP pool *)

\* The fields a packet has.
LEMMA RequestFields ==
    ASSUME NEW m \in Requests
    PROVE  /\ m.kind \in Kinds
           /\ m.kind # "Compact" => m.room \in RoomIDs /\ m.id \in PeerIDs
           /\ m.kind \in {"JoinRoom", "Ping"} => m.from \in Addrs
           /\ m.kind = "PeerStatus" => m.voice \in BOOLEAN
    BY DEF Requests

\* A set of naturals that has an element has a least one.
LEMMA LeastElement ==
    ASSUME NEW S \in SUBSET Nat, S # {}
    PROVE  \E v \in S : \A w \in S : v <= w
<1> DEFINE R == {ss \in Nat \X Nat : ss[1] < ss[2]}
<1>1. IsWellFoundedOn(R, Nat)
    BY NatLessThanWellFounded DEF OpToRel
<1>2. PICK v \in S : \A w \in S : ~(<<w, v>> \in R)
    <2> HIDE DEF R
    <2> QED BY <1>1, WFMin
<1>3. ASSUME NEW w \in S  PROVE v <= w
    <2>1. ~(w < v)
        BY <1>2, <1>3
    <2> QED BY <2>1
<1> QED BY <1>3

\* A room that does not list some client has fewer VIPs in use than there are
\* clients.
LEMMA FewVIPsUsed ==
    ASSUME TypeOK, MembersOK,
           NEW o \in RoomObjs, NEW p \in PeerIDs, peers[o][p] = None
    PROVE  /\ IsFiniteSet(UsedVIPs(o))
           /\ Cardinality(UsedVIPs(o)) < Cardinality(PeerIDs)
<1> DEFINE Q == {q \in PeerIDs : peers[o][q] # None}
           f == [q \in Q |-> peer[peers[o][q]].vip]
           U == UsedVIPs(o)
<1>1. IsFiniteSet(PeerIDs)
    BY PoolAssumption
<1>2. /\ IsFiniteSet(PeerIDs \ {p})
      /\ Cardinality(PeerIDs \ {p}) = Cardinality(PeerIDs) - 1
    BY <1>1, FS_RemoveElement
<1>3. Q \in SUBSET (PeerIDs \ {p})
    OBVIOUS
<1>4. IsFiniteSet(Q) /\ Cardinality(Q) <= Cardinality(PeerIDs) - 1
    <2> HIDE DEF Q
    <2> QED BY <1>2, <1>3, FS_Subset
<1>5. f \in Surjection(Q, U)
    <2>1. f \in [Q -> U]
        BY DEF UsedVIPs, Members
    <2>2. ASSUME NEW v \in U  PROVE \E q \in Q : f[q] = v
        BY DEF UsedVIPs, Members
    <2> QED BY <2>1, <2>2 DEF Surjection
<1>6. IsFiniteSet(U) /\ Cardinality(U) <= Cardinality(Q)
    <2> HIDE DEF Q, f, U
    <2> QED BY <1>4, <1>5, FS_Surjection
<1>7. Cardinality(Q) \in Nat /\ Cardinality(U) \in Nat /\ Cardinality(PeerIDs) \in Nat
    <2> HIDE DEF Q, U
    <2> QED BY <1>1, <1>4, <1>6, FS_CardinalityType
<1> HIDE DEF Q, U
<1> QED BY <1>4, <1>6, <1>7 DEF U

\* Room.allocVIPLocked finds a free number, and not a high one.
LEMMA AllocVIPFree ==
    ASSUME TypeOK, MembersOK,
           NEW o \in RoomObjs, NEW p \in PeerIDs, peers[o][p] = None
    PROVE  /\ AllocVIP(o) \in VIPs \ UsedVIPs(o)
           /\ AllocVIP(o) \in VIPStart .. (VIPStart + Cardinality(PeerIDs) - 1)
<1> DEFINE n == Cardinality(PeerIDs)
           I == VIPStart .. (VIPStart + n - 1)
           free == VIPs \ UsedVIPs(o)
<1>1. n \in Nat /\ n > 0 /\ IsFiniteSet(UsedVIPs(o)) /\ Cardinality(UsedVIPs(o)) < n
    <2>1. IsFiniteSet(UsedVIPs(o)) /\ Cardinality(UsedVIPs(o)) < n
        BY FewVIPsUsed
    <2>2. n \in Nat /\ Cardinality(UsedVIPs(o)) \in Nat
        BY <2>1, PoolAssumption, FS_CardinalityType
    <2> QED BY <2>1, <2>2
<1>2. I \subseteq VIPs /\ VIPs \subseteq Nat
    BY <1>1, PoolAssumption, VIPAssumption DEF VIPs
<1>3. Cardinality(I) = n
    <2>1. VIPStart \in Int /\ VIPStart + n - 1 \in Int /\ ~(VIPStart > VIPStart + n - 1)
        BY <1>1, VIPAssumption
    <2>2. Cardinality(I) = (VIPStart + n - 1) - VIPStart + 1
        BY <2>1, FS_Interval
    <2> QED BY <1>1, <2>2, VIPAssumption
<1>4. PICK v \in I : v \notin UsedVIPs(o)
    <2>1. SUFFICES ASSUME I \subseteq UsedVIPs(o)  PROVE FALSE
        OBVIOUS
    <2>2. Cardinality(I) <= Cardinality(UsedVIPs(o))
        BY <1>1, <2>1, FS_Subset
    <2>3. Cardinality(UsedVIPs(o)) \in Nat
        BY <1>1, FS_CardinalityType
    <2> QED BY <1>1, <1>3, <2>2, <2>3
<1>5. v \in free
    BY <1>2, <1>4
<1>6. \E c \in free : \A w \in free : c <= w
    BY <1>2, <1>5, LeastElement
<1>7. AllocVIP(o) \in free /\ \A w \in free : AllocVIP(o) <= w
    <2>1. AllocVIP(o) = CHOOSE c \in free : \A w \in free : c <= w
        BY <1>5 DEF AllocVIP
    <2> HIDE DEF free
    <2> QED BY <1>6, <2>1
<1>8. AllocVIP(o) \in I
    <2>1. AllocVIP(o) <= v /\ AllocVIP(o) \in VIPs
        BY <1>5, <1>7
    <2> QED BY <1>1, <1>4, <2>1, VIPAssumption DEF VIPs
<1> QED BY <1>7, <1>8

-----------------------------------------------------------------------------
(* Type correctness *)

LEMMA TypeInit == Init => TypeInv
<1> SUFFICES ASSUME Init  PROVE TypeInv
    OBVIOUS
<1>1. TypeOK
    BY DEF Init, TypeOK, Idle, ScanIdle, HandlerRec, ScanRec
<1>2. MembersOK
    BY DEF Init, MembersOK
<1>3. ScanOK
    BY DEF Init, ScanOK, ScanIdle
<1>4. ASSUME NEW h \in Handlers  PROVE LocalsOK(hs[h]) /\ PointersOK(hs[h])
    BY DEF Init, LocalsOK, PointersOK, Idle
<1> QED BY <1>1, <1>2, <1>3, <1>4 DEF TypeInv

\* A handler h that ends a step with the local variables s preserves TypeInv if
\* s is well-formed and the shared variables stay so.
LEMMA TypeStep ==
    ASSUME TypeInv, NEW h \in Handlers, NEW s \in HandlerRec,
           hs' = [hs EXCEPT ![h] = s], LocalsOK(s), PointersOK(s)',
           scan' = scan, scan.pc = "sweep" => rooms' = rooms,
           rooms' \in [RoomIDs -> RoomObjs \cup {None}], made' \subseteq RoomObjs,
           peers' \in [RoomObjs -> [PeerIDs -> PeerObjs \cup {None}]],
           peer' \in [PeerObjs -> PeerRec \cup {None}],
           told' \subseteq PeerIDs \X PeerObjs \X BOOLEAN,
           \A m : Allocated(m) => Allocated(m)', MembersOK'
    PROVE  TypeInv'
<1>1. TypeOK'
    BY DEF TypeInv, TypeOK
<1>2. ScanOK'
    BY DEF TypeInv, ScanOK
<1>3. ASSUME NEW g \in Handlers  PROVE LocalsOK(hs[g])' /\ PointersOK(hs[g])'
    <2>1. CASE g = h
        <3>1. hs'[g] = s
            BY <2>1 DEF TypeInv, TypeOK
        <3>2. LocalsOK(hs[g])'
            BY <3>1 DEF LocalsOK, HoldsPeer
        <3>3. PointersOK(hs[g])'
            BY <3>1 DEF PointersOK
        <3> QED BY <3>2, <3>3
    <2>2. CASE g # h
        <3>1. hs'[g] = hs[g] /\ LocalsOK(hs[g]) /\ PointersOK(hs[g])
            BY <2>2 DEF TypeInv, TypeOK
        <3>2. LocalsOK(hs[g])'
            BY <3>1 DEF LocalsOK, HoldsPeer
        <3>3. PointersOK(hs[g])'
            BY <3>1 DEF PointersOK
        <3> QED BY <3>2, <3>3
    <2> QED BY <2>1, <2>2
<1> QED BY <1>1, <1>2, <1>3 DEF TypeInv

\* The same for a step that leaves the registry and the heap alone.
LEMMA TypeLocalStep ==
    ASSUME TypeInv, NEW h \in Handlers, NEW s \in HandlerRec,
           hs' = [hs EXCEPT ![h] = s], LocalsOK(s), PointersOK(s),
           UNCHANGED <<rooms, made, peers, peer, scan>>,
           told' \subseteq PeerIDs \X PeerObjs \X BOOLEAN
    PROVE  TypeInv'
<1>1. \A m : Allocated(m) => Allocated(m)'
    BY DEF Allocated
<1>2. PointersOK(s)' /\ MembersOK'
    BY <1>1 DEF PointersOK, MembersOK, TypeInv, Allocated
<1> QED BY <1>1, <1>2, TypeStep DEF TypeInv, TypeOK

LEMMA TypeJoinGetRoom ==
    ASSUME TypeInv, NEW h \in Handlers, NEW m \in Requests, JoinGetRoom(h, m)
    PROVE  TypeInv'
<1>1. PICK o \in RoomObjs, p \in PeerObjs :
        /\ IF rooms[m.room] # None
           THEN o = rooms[m.room] /\ UNCHANGED <<rooms, made>>
           ELSE /\ made' = made \cup {o}
                /\ rooms' = [rooms EXCEPT ![m.room] = o]
        /\ peer[p] = None
        /\ peer' = [peer EXCEPT ![p] = [id |-> m.id, addr |-> m.from, vip |-> 0,
                                        voice |-> FALSE, stale |-> FALSE]]
        /\ hs' = [hs EXCEPT ![h] = [Idle EXCEPT !.pc = "join", !.req = m,
                                                !.room = o, !.peer = p]]
        /\ scan.pc # "sweep" /\ m.kind = "JoinRoom"
        /\ UNCHANGED <<peers, scan, told>>
    BY DEF JoinGetRoom, MgrFree
<1> DEFINE s == [Idle EXCEPT !.pc = "join", !.req = m, !.room = o, !.peer = p]
<1>2. m.room \in RoomIDs /\ m.id \in PeerIDs /\ m.from \in Addrs
    BY <1>1, RequestFields
<1>3. /\ peer' \in [PeerObjs -> PeerRec \cup {None}] /\ peer'[p] \in PeerRec
      /\ \A x \in PeerObjs : x # p => peer'[x] = peer[x]
    BY <1>1, <1>2 DEF TypeInv, TypeOK, PeerRec
<1>4. \A x : Allocated(x) => Allocated(x)' /\ x # p
    BY <1>1, <1>3, NoneAssumption DEF Allocated, TypeInv, TypeOK
<1>5. MembersOK'
    BY <1>1, <1>3, <1>4 DEF MembersOK, Allocated, TypeInv
<1>6. s \in HandlerRec /\ LocalsOK(s)
    BY NoneAssumption, <1>1 DEF HandlerRec, LocalsOK, HoldsPeer, KindsAt, Idle
<1>7. PointersOK(s)'
    BY <1>3 DEF PointersOK, Allocated, Idle
<1>8. rooms' \in [RoomIDs -> RoomObjs \cup {None}] /\ made' \subseteq RoomObjs
    BY <1>1, <1>2 DEF TypeInv, TypeOK
<1> HIDE DEF s
<1>9. hs' = [hs EXCEPT ![h] = s]
    BY <1>1 DEF s
<1> QED BY <1>1, <1>3, <1>4, <1>5, <1>6, <1>7, <1>8, <1>9, TypeStep DEF TypeInv, TypeOK

LEMMA TypeJoinKnown ==
    ASSUME TypeInv, NEW h \in Handlers, JoinKnown(h)
    PROVE  TypeInv'
<1>0. PICK q, m, s : /\ q = hs[h].req /\ m = peers[hs[h].room][q.id]
                     /\ s = [hs[h] EXCEPT !.pc = "snapshot", !.vip = peer[m].vip]
    OBVIOUS
<1>1. /\ hs[h] \in HandlerRec /\ LocalsOK(hs[h]) /\ PointersOK(hs[h]) /\ hs[h].pc = "join"
      /\ q \in Requests /\ q.kind = "JoinRoom" /\ hs[h].room \in RoomObjs /\ hs[h].peer # None
    BY <1>0 DEF JoinKnown, At, TypeInv, TypeOK, LocalsOK, HoldsPeer, KindsAt
<1>2. q.id \in PeerIDs /\ q.from \in Addrs
    BY <1>0, <1>1, RequestFields
<1>3. /\ m # None
      /\ peer' = [peer EXCEPT ![m].addr = q.from, ![m].stale = FALSE]
      /\ hs' = [hs EXCEPT ![h].pc = "snapshot", ![h].vip = peer[m].vip]
      /\ UNCHANGED <<rooms, made, peers, scan, told>>
    BY <1>0 DEF JoinKnown, Req
<1>4. Allocated(m) /\ peer[m].vip \in VIPs
    BY <1>0, <1>1, <1>2, <1>3 DEF TypeInv, MembersOK
<1>5. /\ peer' \in [PeerObjs -> PeerRec \cup {None}]
      /\ \A x \in PeerObjs : x # m => peer'[x] = peer[x]
      /\ peer'[m] \in PeerRec /\ peer'[m].id = peer[m].id /\ peer'[m].vip = peer[m].vip
    BY <1>2, <1>3, <1>4 DEF TypeInv, TypeOK, Allocated, PeerRec
<1>6. \A x : Allocated(x) => Allocated(x)'
    BY <1>5 DEF Allocated
<1>7. MembersOK'
    BY <1>3, <1>5, <1>6 DEF MembersOK, Allocated, TypeInv
<1>8. s \in HandlerRec /\ LocalsOK(s)
    BY <1>0, <1>1, <1>4 DEF HandlerRec, LocalsOK, HoldsPeer, KindsAt
<1>9. PointersOK(s)'
    BY <1>0, <1>1, <1>3, <1>6 DEF PointersOK, HandlerRec
<1>10. hs' = [hs EXCEPT ![h] = s]
    BY <1>0, <1>3 DEF TypeInv, TypeOK, HandlerRec
<1> QED BY <1>3, <1>5, <1>6, <1>7, <1>8, <1>9, <1>10, TypeStep DEF TypeInv, TypeOK

LEMMA TypeJoinNew ==
    ASSUME TypeInv, NEW h \in Handlers, JoinNew(h), JoinerID
    PROVE  TypeInv'
<1>0. PICK q, o, m, v, s :
        /\ q = hs[h].req /\ o = hs[h].room /\ m = hs[h].peer /\ v = AllocVIP(o)
        /\ s = [hs[h] EXCEPT !.pc = "snapshot", !.vip = v]
    OBVIOUS
<1>1. /\ hs[h] \in HandlerRec /\ LocalsOK(hs[h]) /\ PointersOK(hs[h]) /\ hs[h].pc = "join"
      /\ q \in Requests /\ q.kind = "JoinRoom" /\ o \in RoomObjs /\ m # None
    BY <1>0 DEF JoinNew, At, TypeInv, TypeOK, LocalsOK, HoldsPeer, KindsAt
<1>2. q.id \in PeerIDs /\ peer[m].id = q.id /\ Allocated(m)
    BY <1>0, <1>1, RequestFields DEF JoinerID, At, Is, Req, PointersOK
<1>3. /\ peers[o][q.id] = None
      /\ peer' = [peer EXCEPT ![m].vip = v]
      /\ peers' = [peers EXCEPT ![o][q.id] = m]
      /\ hs' = [hs EXCEPT ![h].pc = "snapshot", ![h].vip = v]
      /\ UNCHANGED <<rooms, made, scan, told>>
    BY <1>0 DEF JoinNew, Req
<1>4. v \in VIPs
    BY <1>0, <1>1, <1>2, <1>3, AllocVIPFree DEF TypeInv
<1>5. /\ peer' \in [PeerObjs -> PeerRec \cup {None}]
      /\ \A x \in PeerObjs : x # m => peer'[x] = peer[x]
      /\ peer'[m] \in PeerRec /\ peer'[m].id = q.id /\ peer'[m].vip = v
    BY <1>2, <1>3, <1>4 DEF TypeInv, TypeOK, Allocated, PeerRec
<1>6. \A x : Allocated(x) => Allocated(x)'
    BY <1>5 DEF Allocated
<1>7. /\ peers' \in [RoomObjs -> [PeerIDs -> PeerObjs \cup {None}]]
      /\ \A x \in RoomObjs, p \in PeerIDs :
            peers'[x][p] = IF x = o /\ p = q.id THEN m ELSE peers[x][p]
    BY <1>0, <1>1, <1>2, <1>3 DEF TypeInv, TypeOK, Allocated
<1>8. MembersOK'
    <2> SUFFICES ASSUME NEW x \in RoomObjs, NEW p \in PeerIDs, peers'[x][p] # None
                 PROVE  /\ Allocated(peers[x][p])'
                        /\ (peer[peers[x][p]].id = p)'
                        /\ (peer[peers[x][p]].vip \in VIPs)'
        BY DEF MembersOK
    <2>1. CASE peers'[x][p] = m
        <3>1. p = q.id
            BY <1>2, <1>7, <2>1 DEF MembersOK, TypeInv
        <3> QED BY <1>4, <1>5, <1>6, <1>2, <2>1, <3>1 DEF Allocated
    <2>2. CASE peers'[x][p] # m
        BY <1>5, <1>6, <1>7, <2>2 DEF MembersOK, TypeInv, Allocated
    <2> QED BY <2>1, <2>2
<1>9. s \in HandlerRec /\ LocalsOK(s)
    BY <1>0, <1>1, <1>4 DEF HandlerRec, LocalsOK, HoldsPeer, KindsAt
<1>10. PointersOK(s)'
    BY <1>0, <1>1, <1>3, <1>6 DEF PointersOK, HandlerRec
<1>11. hs' = [hs EXCEPT ![h] = s]
    BY <1>0, <1>3 DEF TypeInv, TypeOK, HandlerRec
<1> QED BY <1>3, <1>5, <1>6, <1>7, <1>8, <1>9, <1>10, <1>11, TypeStep DEF TypeInv, TypeOK

\* The facts about a handler in progress that the steps below start from.
LEMMA TypeHandler ==
    ASSUME TypeInv, NEW h \in Handlers, ~At(h, "idle")
    PROVE  /\ hs[h] \in HandlerRec /\ LocalsOK(hs[h]) /\ PointersOK(hs[h])
           /\ Req(h) \in Requests /\ Req(h).kind \in KindsAt(hs[h].pc)
           /\ hs[h].room \in RoomObjs
           /\ HoldsPeer(hs[h]) => hs[h].peer # None
    BY DEF TypeInv, TypeOK, LocalsOK, At, Req

LEMMA TypeIdle == Idle \in HandlerRec /\ LocalsOK(Idle) /\ PointersOK(Idle)
    BY DEF Idle, HandlerRec, LocalsOK, PointersOK

LEMMA TypeDone ==
    ASSUME TypeInv, NEW h \in Handlers, Done(h),
           UNCHANGED <<rooms, made, peers, peer, scan>>,
           told' \subseteq PeerIDs \X PeerObjs \X BOOLEAN
    PROVE  TypeInv'
    BY TypeIdle, TypeLocalStep DEF Done

\* The members of a room are allocated.
LEMMA TypeMembers ==
    ASSUME TypeInv, NEW o \in RoomObjs
    PROVE  \A m \in Members(o) : Allocated(m)
    BY DEF TypeInv, MembersOK, Members

LEMMA TypeJoinAnnounce ==
    ASSUME TypeInv, NEW h \in Handlers, JoinAnnounce(h)
    PROVE  TypeInv'
<1>1. /\ Req(h) \in Requests /\ Req(h).kind = "JoinRoom" /\ PointersOK(hs[h])
      /\ hs[h].peer # None
    BY TypeHandler DEF JoinAnnounce, At, Is, HoldsPeer, Req
<1>2. Req(h).id \in PeerIDs
    BY <1>1, RequestFields
<1>3. \A m \in hs[h].snap \cup {hs[h].peer} :
        m \in PeerObjs /\ peer[m].id \in PeerIDs /\ peer[m].voice \in BOOLEAN
    BY <1>1 DEF PointersOK, Allocated, PeerRec
<1>4. told' \subseteq PeerIDs \X PeerObjs \X BOOLEAN
    BY <1>2, <1>3 DEF JoinAnnounce, TypeInv, TypeOK
<1> QED BY <1>4, TypeDone DEF JoinAnnounce

LEMMA TypeGetRoom ==
    ASSUME TypeInv, NEW h \in Handlers, NEW m \in Requests, GetRoom(h, m)
    PROVE  TypeInv'
<1>1. PICK s : s = [Idle EXCEPT !.pc = AfterGet[m.kind], !.req = m, !.room = rooms[m.room]]
    OBVIOUS
<1>2. m.room \in RoomIDs
    BY RequestFields DEF GetRoom, AfterGet
<1>3. rooms[m.room] \in RoomObjs
    BY <1>2 DEF GetRoom, TypeInv, TypeOK
<1>4. /\ m.kind \in {"PeerLeave", "Chat", "PeerStatus", "PeerMetrics", "Ping", "RelayData"}
      /\ s.pc = AfterGet[m.kind] /\ s.req = m /\ s.room = rooms[m.room] /\ s.peer = None
      /\ s.snap = {} /\ s.vip = None
    BY <1>1 DEF GetRoom, AfterGet, Idle
<1>5. s \in HandlerRec
    <2>1. AfterGet[m.kind] \in {"leave", "snapshot", "getpeer", "route"}
        BY <1>4 DEF AfterGet
    <2> QED BY <1>1, <1>3, <2>1 DEF HandlerRec, Idle
<1>6. LocalsOK(s)
    BY <1>3, <1>4 DEF LocalsOK, HoldsPeer, KindsAt, AfterGet
<1>7. PointersOK(s)
    BY <1>4 DEF PointersOK
<1> QED BY <1>1, <1>5, <1>6, <1>7, TypeLocalStep DEF GetRoom, TypeInv, TypeOK

LEMMA TypeGetPeer ==
    ASSUME TypeInv, NEW h \in Handlers, GetPeer(h)
    PROVE  TypeInv'
<1>1. PICK m, s : /\ m = peers[hs[h].room][Req(h).id]
                  /\ s = [hs[h] EXCEPT !.peer = m,
                            !.pc = IF Is(h, "PeerMetrics") THEN "snapshot" ELSE "update"]
    OBVIOUS
<1>2. CASE m = None
    BY <1>1, <1>2, TypeDone DEF GetPeer, TypeInv, TypeOK
<1>3. CASE m # None
    <2>1. /\ hs[h] \in HandlerRec /\ hs[h].room \in RoomObjs /\ Req(h) \in Requests
          /\ Req(h).kind \in {"Ping", "PeerStatus", "PeerMetrics"} /\ PointersOK(hs[h])
        BY TypeHandler DEF GetPeer, At, KindsAt
    <2>2. Req(h).id \in PeerIDs
        BY <2>1, RequestFields
    <2>3. Allocated(m)
        BY <1>1, <1>3, <2>1, <2>2 DEF TypeInv, MembersOK
    <2>4. s \in HandlerRec /\ s.req = Req(h) /\ s.room = hs[h].room /\ s.peer = m
          /\ s.snap = hs[h].snap /\ s.pc \in {"snapshot", "update"}
          /\ (s.pc = "snapshot" <=> Req(h).kind = "PeerMetrics")
        BY <1>1, <2>1, <2>3 DEF HandlerRec, Allocated, Is, Req
    <2>5. LocalsOK(s)
        BY <1>3, <2>1, <2>4 DEF LocalsOK, HoldsPeer, KindsAt
    <2>6. PointersOK(s)
        BY <2>1, <2>3, <2>4 DEF PointersOK
    <2>7. hs' = [hs EXCEPT ![h] = s]
        BY <1>1, <1>3 DEF GetPeer, TypeInv, TypeOK, HandlerRec
    <2> QED BY <2>4, <2>5, <2>6, <2>7, TypeLocalStep DEF GetPeer, TypeInv, TypeOK
<1> QED BY <1>2, <1>3

\* A handler that changes its pc only, and stays well-formed.
LEMMA TypeGoto ==
    ASSUME TypeInv, NEW h \in Handlers, NEW pc, Goto(h, pc),
           pc \in {"snapshot", "checkempty", "reclaim"},
           ~At(h, "idle"), Req(h).kind \in KindsAt(pc),
           pc = "snapshot" => hs[h].peer # None \/ Req(h).kind \notin {"JoinRoom", "PeerStatus"}
    PROVE  LET s == [hs[h] EXCEPT !.pc = pc] IN
           /\ s \in HandlerRec /\ LocalsOK(s) /\ hs' = [hs EXCEPT ![h] = s]
           /\ s.peer = hs[h].peer /\ s.snap = hs[h].snap
<1>1. hs[h] \in HandlerRec /\ hs[h].room \in RoomObjs /\ Req(h) \in Requests
    BY TypeHandler
<1> QED BY <1>1 DEF Goto, HandlerRec, LocalsOK, HoldsPeer, KindsAt, Req, TypeInv, TypeOK

LEMMA TypeTouchPeer ==
    ASSUME TypeInv, NEW h \in Handlers, TouchPeer(h)
    PROVE  TypeInv'
<1>1. PICK m : m = hs[h].peer
    OBVIOUS
<1>2. Allocated(m)
    BY <1>1, TypeHandler DEF TouchPeer, At, HoldsPeer, PointersOK
<1>3. /\ peer' \in [PeerObjs -> PeerRec \cup {None}]
      /\ \A x \in PeerObjs : x # m => peer'[x] = peer[x]
      /\ peer'[m] \in PeerRec /\ peer'[m].id = peer[m].id /\ peer'[m].vip = peer[m].vip
    BY <1>1, <1>2 DEF TouchPeer, TypeInv, TypeOK, Allocated, PeerRec
<1>4. \A x : Allocated(x) => Allocated(x)'
    BY <1>3 DEF Allocated
<1>5. MembersOK'
    <2>1. UNCHANGED peers /\ MembersOK
        BY DEF TouchPeer, TypeInv
    <2> QED BY <1>3, <1>4, <2>1 DEF MembersOK, Allocated
<1>6. PointersOK(Idle)'
    BY DEF PointersOK, Idle
<1> QED BY <1>3, <1>4, <1>5, <1>6, TypeIdle, TypeStep DEF TouchPeer, Done, TypeInv, TypeOK

LEMMA TypeSetVoiceStatus ==
    ASSUME TypeInv, NEW h \in Handlers, SetVoiceStatus(h)
    PROVE  TypeInv'
<1>1. PICK m, s : m = hs[h].peer /\ s = [hs[h] EXCEPT !.pc = "snapshot"]
    OBVIOUS
<1>2. /\ Allocated(m) /\ m # None /\ Req(h) \in Requests /\ Req(h).kind = "PeerStatus"
      /\ PointersOK(hs[h])
    BY <1>1, TypeHandler DEF SetVoiceStatus, At, Is, HoldsPeer, PointersOK
<1>3. Req(h).voice \in BOOLEAN
    BY <1>2, RequestFields
<1>4. /\ peer' \in [PeerObjs -> PeerRec \cup {None}]
      /\ \A x \in PeerObjs : x # m => peer'[x] = peer[x]
      /\ peer'[m] \in PeerRec /\ peer'[m].id = peer[m].id /\ peer'[m].vip = peer[m].vip
    BY <1>1, <1>2, <1>3 DEF SetVoiceStatus, TypeInv, TypeOK, Allocated, PeerRec
<1>5. \A x : Allocated(x) => Allocated(x)'
    BY <1>4 DEF Allocated
<1>6. MembersOK'
    BY <1>4, <1>5 DEF SetVoiceStatus, MembersOK, Allocated, TypeInv
<1>7. /\ s \in HandlerRec /\ LocalsOK(s) /\ hs' = [hs EXCEPT ![h] = s]
      /\ s.peer = m /\ s.snap = hs[h].snap
    BY <1>1, <1>2, TypeGoto DEF SetVoiceStatus, KindsAt, At
<1>8. PointersOK(s)'
    BY <1>2, <1>5, <1>7 DEF PointersOK
<1> QED BY <1>4, <1>5, <1>6, <1>7, <1>8, TypeStep DEF SetVoiceStatus, TypeInv, TypeOK

LEMMA TypeLeave ==
    ASSUME TypeInv, NEW h \in Handlers, Leave(h)
    PROVE  TypeInv'
<1>1. PICK s : s = [hs[h] EXCEPT !.pc = "snapshot"]
    OBVIOUS
<1>2. /\ Req(h) \in Requests /\ Req(h).kind = "PeerLeave" /\ PointersOK(hs[h])
      /\ hs[h].room \in RoomObjs
    BY TypeHandler DEF Leave, At, KindsAt
<1>3. Req(h).id \in PeerIDs
    BY <1>2, RequestFields
<1>4. /\ peers' \in [RoomObjs -> [PeerIDs -> PeerObjs \cup {None}]]
      /\ \A o \in RoomObjs, p \in PeerIDs : peers'[o][p] \in {peers[o][p], None}
    BY <1>2, <1>3 DEF Leave, TypeInv, TypeOK
<1>5. \A x : Allocated(x) => Allocated(x)'
    BY DEF Leave, Allocated
<1>6. MembersOK'
    BY <1>4, <1>5 DEF Leave, MembersOK, TypeInv
<1>7. /\ s \in HandlerRec /\ LocalsOK(s) /\ hs' = [hs EXCEPT ![h] = s]
      /\ s.peer = hs[h].peer /\ s.snap = hs[h].snap
    BY <1>1, <1>2, TypeGoto DEF Leave, KindsAt, At
<1>8. PointersOK(s)'
    BY <1>2, <1>5, <1>7 DEF PointersOK
<1> QED BY <1>4, <1>5, <1>6, <1>7, <1>8, TypeStep DEF Leave, TypeInv, TypeOK

LEMMA TypeSnapshot ==
    ASSUME TypeInv, NEW h \in Handlers, Snapshot(h)
    PROVE  TypeInv'
<1>1. PICK s : s = [hs[h] EXCEPT !.snap = Members(hs[h].room), !.pc = "send"]
    OBVIOUS
<1>2. /\ hs[h] \in HandlerRec /\ PointersOK(hs[h]) /\ LocalsOK(hs[h])
      /\ hs[h].pc = "snapshot" /\ hs[h].room \in RoomObjs
    BY TypeHandler DEF Snapshot, At
<1>3. \A m \in Members(hs[h].room) : Allocated(m)
    BY <1>2, TypeMembers
<1>4. s \in HandlerRec /\ PointersOK(s)
    BY <1>1, <1>2, <1>3 DEF HandlerRec, PointersOK, Allocated
<1>5. LocalsOK(s)
    BY <1>1, <1>2 DEF HandlerRec, LocalsOK, HoldsPeer, KindsAt
<1>6. hs' = [hs EXCEPT ![h] = s]
    BY <1>1 DEF Snapshot, TypeInv, TypeOK, HandlerRec
<1> QED BY <1>4, <1>5, <1>6, TypeLocalStep DEF Snapshot, TypeInv, TypeOK

LEMMA TypeBroadcast ==
    ASSUME TypeInv, NEW h \in Handlers, Broadcast(h)
    PROVE  TypeInv'
<1>1. /\ Req(h) \in Requests /\ hs[h].pc = "send" /\ PointersOK(hs[h])
      /\ (HoldsPeer(hs[h]) => hs[h].peer # None)
    BY TypeHandler DEF Broadcast, At
<1>2. told' \subseteq PeerIDs \X PeerObjs \X BOOLEAN
    <2>1. CASE Req(h).kind = "PeerStatus"
        <3>1. Req(h).voice \in BOOLEAN /\ hs[h].peer \in PeerObjs
            BY <1>1, <2>1, RequestFields DEF HoldsPeer, PointersOK, Allocated, Req
        <3>2. \A m \in hs[h].snap : peer[m].id \in PeerIDs
            BY <1>1 DEF PointersOK, Allocated, PeerRec
        <3> QED BY <2>1, <3>1, <3>2 DEF Broadcast, Is, TypeInv, TypeOK
    <2>2. CASE Req(h).kind # "PeerStatus"
        BY <2>2 DEF Broadcast, Is, TypeInv, TypeOK
    <2> QED BY <2>1, <2>2
<1>3. CASE Is(h, "PeerLeave")
    <2>1. PICK s : s = [hs[h] EXCEPT !.pc = "checkempty"]
        OBVIOUS
    <2>2. /\ s \in HandlerRec /\ LocalsOK(s) /\ hs' = [hs EXCEPT ![h] = s]
          /\ s.peer = hs[h].peer /\ s.snap = hs[h].snap
        BY <1>1, <1>3, <2>1, TypeGoto DEF Broadcast, Is, At, KindsAt
    <2>3. PointersOK(s)
        BY <1>1, <2>2 DEF PointersOK
    <2> QED BY <1>2, <2>2, <2>3, TypeLocalStep DEF Broadcast
<1>4. CASE ~Is(h, "PeerLeave")
    BY <1>2, <1>4, TypeDone DEF Broadcast
<1> QED BY <1>3, <1>4

LEMMA TypeLeaveCheckEmpty ==
    ASSUME TypeInv, NEW h \in Handlers, LeaveCheckEmpty(h)
    PROVE  TypeInv'
<1>1. CASE IsEmpty(hs[h].room)
    <2>1. PICK s : s = [hs[h] EXCEPT !.pc = "reclaim"]
        OBVIOUS
    <2>2. Req(h).kind = "PeerLeave" /\ PointersOK(hs[h])
        BY TypeHandler DEF LeaveCheckEmpty, At, KindsAt
    <2>3. /\ s \in HandlerRec /\ LocalsOK(s) /\ hs' = [hs EXCEPT ![h] = s]
          /\ s.peer = hs[h].peer /\ s.snap = hs[h].snap
        BY <1>1, <2>1, <2>2, TypeGoto DEF LeaveCheckEmpty, At, KindsAt
    <2>4. PointersOK(s)
        BY <2>2, <2>3 DEF PointersOK
    <2> QED BY <2>3, <2>4, TypeLocalStep DEF LeaveCheckEmpty, TypeInv, TypeOK
<1>2. CASE ~IsEmpty(hs[h].room)
    BY <1>2, TypeDone DEF LeaveCheckEmpty, TypeInv, TypeOK
<1> QED BY <1>1, <1>2

LEMMA TypeLeaveReclaim ==
    ASSUME TypeInv, NEW h \in Handlers, LeaveReclaim(h)
    PROVE  TypeInv'
<1>1. rooms' \in [RoomIDs -> RoomObjs \cup {None}] /\ scan.pc # "sweep"
    BY DEF LeaveReclaim, MgrFree, TypeInv, TypeOK
<1>2. \A x : Allocated(x) => Allocated(x)'
    BY DEF LeaveReclaim, Allocated
<1>3. MembersOK' /\ PointersOK(Idle)'
    BY <1>2 DEF LeaveReclaim, MembersOK, TypeInv, PointersOK, Idle
<1> QED BY <1>1, <1>2, <1>3, TypeIdle, TypeStep DEF LeaveReclaim, Done, TypeInv, TypeOK

LEMMA TypeCompactLookup ==
    ASSUME TypeInv, NEW h \in Handlers, NEW m \in Requests, CompactLookup(h, m)
    PROVE  TypeInv'
<1>1. PICK o \in RoomsByAddr(m.from) :
        hs' = [hs EXCEPT ![h] = [Idle EXCEPT !.pc = "route", !.req = m, !.room = o]]
    BY DEF CompactLookup
<1>2. PICK s : s = [Idle EXCEPT !.pc = "route", !.req = m, !.room = o]
    OBVIOUS
<1>3. o \in RoomObjs
    BY <1>1 DEF RoomsByAddr, TypeInv, TypeOK
<1>4. s \in HandlerRec /\ LocalsOK(s) /\ PointersOK(s)
    BY <1>2, <1>3 DEF CompactLookup, HandlerRec, LocalsOK, PointersOK, HoldsPeer, KindsAt, Idle
<1> QED BY <1>1, <1>2, <1>4, TypeLocalStep DEF CompactLookup, TypeInv, TypeOK

LEMMA TypeRoute ==
    ASSUME TypeInv, NEW h \in Handlers, Route(h)
    PROVE  TypeInv'
<1>1. CASE Done(h)
    BY <1>1, TypeDone DEF Route, TypeInv, TypeOK
<1>2. CASE \E m \in PeersByVIP(hs[h].room, Req(h).vip) :
              hs' = [hs EXCEPT ![h].peer = m, ![h].pc = "forward"]
    <2>1. PICK m \in PeersByVIP(hs[h].room, Req(h).vip) :
              hs' = [hs EXCEPT ![h].peer = m, ![h].pc = "forward"]
        BY <1>2
    <2>2. PICK s : s = [hs[h] EXCEPT !.peer = m, !.pc = "forward"]
        OBVIOUS
    <2>3. /\ hs[h] \in HandlerRec /\ PointersOK(hs[h]) /\ hs[h].room \in RoomObjs
          /\ Req(h) \in Requests /\ Req(h).kind \in {"Compact", "RelayData"}
        BY TypeHandler DEF Route, At, KindsAt
    <2>4. Allocated(m) /\ m # None
        BY <2>1, <2>3, TypeMembers, NoneAssumption DEF PeersByVIP, Allocated
    <2>5. s \in HandlerRec /\ LocalsOK(s) /\ PointersOK(s)
        BY <2>2, <2>3, <2>4 DEF HandlerRec, LocalsOK, HoldsPeer, KindsAt, PointersOK, Allocated, Req
    <2>6. hs' = [hs EXCEPT ![h] = s]
        BY <2>1, <2>2 DEF TypeInv, TypeOK, HandlerRec
    <2> QED BY <2>5, <2>6, TypeLocalStep DEF Route, TypeInv, TypeOK
<1> QED BY <1>1, <1>2 DEF Route

LEMMA TypeForward ==
    ASSUME TypeInv, NEW h \in Handlers, Forward(h)
    PROVE  TypeInv'
    BY TypeDone DEF Forward, TypeInv, TypeOK

\* A step of scanLoop or of the clock, which changes no handler's variables.
LEMMA TypeScanStep ==
    ASSUME TypeInv, UNCHANGED <<made, hs, told>>,
           rooms' \in [RoomIDs -> RoomObjs \cup {None}],
           peers' \in [RoomObjs -> [PeerIDs -> PeerObjs \cup {None}]],
           peer' \in [PeerObjs -> PeerRec \cup {None}],
           \A m : Allocated(m) => Allocated(m)', MembersOK',
           scan' \in ScanRec, ScanOK'
    PROVE  TypeInv'
<1>1. TypeOK'
    BY DEF TypeInv, TypeOK
<1>2. ASSUME NEW h \in Handlers  PROVE LocalsOK(hs[h])' /\ PointersOK(hs[h])'
    BY DEF TypeInv, LocalsOK, HoldsPeer, PointersOK
<1> QED BY <1>1, <1>2 DEF TypeInv

LEMMA TypeScanLocal ==
    ASSUME TypeInv, UNCHANGED <<made, hs, told, peers, peer>>,
           rooms' \in [RoomIDs -> RoomObjs \cup {None}],
           scan' \in ScanRec, ScanOK'
    PROVE  TypeInv'
<1>1. \A m : Allocated(m) => Allocated(m)'
    BY DEF Allocated
<1>2. MembersOK'
    BY <1>1 DEF TypeInv, MembersOK
<1> QED BY <1>1, <1>2, TypeScanStep DEF TypeInv, TypeOK

LEMMA TypeReport ==
    ASSUME NEW rest \in SUBSET (RoomIDs \X PeerObjs), Report(rest)
    PROVE  scan' \in ScanRec /\ scan'.pc # "sweep" /\ scan'.visit = None
    BY DEF Report, ScanIdle, ScanRec

LEMMA TypeScanBegin ==
    ASSUME TypeInv, ScanBegin
    PROVE  TypeInv'
<1>1. scan \in ScanRec
    BY DEF TypeInv, TypeOK
<1>2. scan' \in ScanRec
    BY <1>1 DEF ScanBegin, ScanRec
<1>3. ScanOK'
    BY <1>1 DEF ScanBegin, ScanRec, ScanOK, TypeInv
<1> QED BY <1>2, <1>3, TypeScanLocal DEF ScanBegin, TypeInv, TypeOK

LEMMA TypeScanRoom ==
    ASSUME TypeInv, NEW r \in RoomIDs, ScanRoom(r)
    PROVE  TypeInv'
<1>1. PICK o, out :
        /\ o = rooms[r]
        /\ out = {p \in PeerIDs : peers[o][p] # None /\ peer[peers[o][p]].stale}
    OBVIOUS
<1>2. r \in scan.todo /\ scan.pc = "sweep" /\ o \in RoomObjs
    BY <1>1 DEF ScanRoom, TypeInv, TypeOK, ScanOK
<1>3. /\ peers' = [peers EXCEPT ![o] = [p \in PeerIDs |-> IF p \in out THEN None ELSE @[p]]]
      /\ scan' = [scan EXCEPT !.visit = r,
                              !.results = @ \cup {<<r, peers[o][p]>> : p \in out}]
      /\ UNCHANGED <<rooms, made, peer, hs, told>>
    BY <1>1 DEF ScanRoom
<1>4. /\ peers' \in [RoomObjs -> [PeerIDs -> PeerObjs \cup {None}]]
      /\ \A x \in RoomObjs, p \in PeerIDs : peers'[x][p] \in {peers[x][p], None}
    BY <1>2, <1>3 DEF TypeInv, TypeOK
<1>5. \A m : Allocated(m) => Allocated(m)'
    BY <1>3 DEF Allocated
<1>6. MembersOK'
    BY <1>3, <1>4, <1>5 DEF MembersOK, TypeInv
<1>7. \A p \in out : peers[o][p] \in PeerObjs
    BY <1>1, <1>2 DEF TypeInv, TypeOK
<1>8. scan' \in ScanRec
    <2>1. PICK found : found = {<<r, peers[o][p]>> : p \in out}
        OBVIOUS
    <2>2. found \subseteq RoomIDs \X PeerObjs
        BY <1>7, <2>1
    <2>3. scan' = [scan EXCEPT !.visit = r, !.results = @ \cup found] /\ scan \in ScanRec
        BY <1>3, <2>1 DEF TypeInv, TypeOK
    <2> QED BY <2>2, <2>3 DEF ScanRec
<1>9. ScanOK'
    BY <1>2, <1>3 DEF ScanOK, ScanRec, TypeInv, TypeOK
<1> QED BY <1>3, <1>4, <1>5, <1>6, <1>8, <1>9, TypeScanStep DEF TypeInv, TypeOK

LEMMA TypeScanCheckEmpty ==
    ASSUME TypeInv, ScanCheckEmpty
    PROVE  TypeInv'
<1>0. scan \in ScanRec /\ scan.visit \in RoomIDs
    BY DEF ScanCheckEmpty, TypeInv, TypeOK, ScanRec
<1>1. scan' \in ScanRec
    <2>1. PICK r, e : /\ r = scan.visit
                      /\ e = IF IsEmpty(rooms[r]) THEN scan.empty \cup {r} ELSE scan.empty
        OBVIOUS
    <2>2. e \in SUBSET RoomIDs
        BY <1>0, <2>1 DEF ScanRec
    <2>3. scan' = [scan EXCEPT !.visit = None, !.todo = @ \ {r}, !.empty = e]
        BY <2>1 DEF ScanCheckEmpty
    <2> QED BY <1>0, <2>2, <2>3 DEF ScanRec
<1>2. ScanOK'
    BY <1>0 DEF ScanCheckEmpty, ScanRec, ScanOK, TypeInv
<1> QED BY <1>1, <1>2, TypeScanLocal DEF ScanCheckEmpty, TypeInv, TypeOK

LEMMA TypeScanReclaim ==
    ASSUME TypeInv, ScanReclaim
    PROVE  TypeInv'
<1>1. scan' \in ScanRec /\ scan'.pc # "sweep" /\ scan'.visit = None
    BY TypeReport DEF ScanReclaim, TypeInv, TypeOK, ScanRec
<1>2. rooms' \in [RoomIDs -> RoomObjs \cup {None}]
    BY DEF ScanReclaim, TypeInv, TypeOK
<1> QED BY <1>1, <1>2, TypeScanLocal DEF ScanReclaim, ScanOK

LEMMA TypeScanGetRoom ==
    ASSUME TypeInv, NEW x \in scan.results, ScanGetRoom(x)
    PROVE  TypeInv'
<1>1. scan \in ScanRec /\ x \in RoomIDs \X PeerObjs /\ rooms[x[1]] \in RoomObjs \cup {None}
    BY DEF TypeInv, TypeOK, ScanRec
<1>2. scan' \in ScanRec /\ scan'.pc # "sweep" /\ scan'.visit = None
    <2>1. CASE rooms[x[1]] = None
        BY <1>1, <2>1, TypeReport DEF ScanGetRoom, ScanRec
    <2>2. CASE rooms[x[1]] # None
        BY <1>1, <2>2 DEF ScanGetRoom, ScanRec, TypeInv, ScanOK
    <2> QED BY <2>1, <2>2
<1> QED BY <1>2, TypeScanLocal DEF ScanGetRoom, ScanOK, TypeInv, TypeOK

LEMMA TypeScanNotify ==
    ASSUME TypeInv, ScanNotify
    PROVE  TypeInv'
<1>1. scan' \in ScanRec /\ scan'.pc # "sweep" /\ scan'.visit = None
    BY TypeReport DEF ScanNotify, TypeInv, TypeOK, ScanRec
<1> QED BY <1>1, TypeScanLocal DEF ScanNotify, ScanOK, TypeInv, TypeOK

LEMMA TypeExpire ==
    ASSUME TypeInv, NEW m \in PeerObjs, Expire(m)
    PROVE  TypeInv'
<1>1. Allocated(m)
    <2>1. PICK o \in RoomObjs : m \in Members(o)
        BY DEF Expire
    <2> QED BY <2>1, TypeMembers
<1>2. /\ peer' \in [PeerObjs -> PeerRec \cup {None}]
      /\ \A x \in PeerObjs : x # m => peer'[x] = peer[x]
      /\ peer'[m] \in PeerRec /\ peer'[m].id = peer[m].id /\ peer'[m].vip = peer[m].vip
    BY <1>1 DEF Expire, TypeInv, TypeOK, Allocated, PeerRec
<1>3. \A x : Allocated(x) => Allocated(x)'
    BY <1>2 DEF Allocated
<1>4. MembersOK'
    <2>1. UNCHANGED peers /\ MembersOK
        BY DEF Expire, TypeInv
    <2> QED BY <1>2, <1>3, <2>1 DEF MembersOK, Allocated
<1>5. scan' \in ScanRec /\ ScanOK'
    BY DEF Expire, TypeInv, TypeOK, ScanOK
<1> QED BY <1>2, <1>3, <1>4, <1>5, TypeScanStep DEF Expire, TypeInv, TypeOK

LEMMA TypeStutter ==
    ASSUME TypeInv, UNCHANGED vars
    PROVE  TypeInv'
<1>1. scan' \in ScanRec /\ ScanOK'
    BY DEF vars, TypeInv, TypeOK, ScanOK
<1> QED BY <1>1, TypeScanLocal DEF vars, TypeInv, TypeOK

LEMMA TypeNext == TypeInv /\ JoinerID /\ [Next]_vars => TypeInv'
<1> SUFFICES ASSUME TypeInv, JoinerID, [Next]_vars  PROVE TypeInv'
    OBVIOUS
<1>1. CASE UNCHANGED vars
    BY <1>1, TypeStutter
<1>2. ASSUME NEW h \in Handlers, Proceed(h)  PROVE TypeInv'
    BY <1>2, TypeJoinKnown, TypeJoinNew, TypeJoinAnnounce, TypeGetPeer, TypeTouchPeer,
       TypeSetVoiceStatus, TypeLeave, TypeSnapshot, TypeBroadcast, TypeLeaveCheckEmpty,
       TypeLeaveReclaim, TypeRoute, TypeForward DEF Proceed
<1>3. ASSUME NEW h \in Handlers, NEW m \in Requests, Receive(h, m)  PROVE TypeInv'
    BY <1>3, TypeJoinGetRoom, TypeGetRoom, TypeCompactLookup DEF Receive
<1>4. CASE Scan
    BY <1>4, TypeScanBegin, TypeScanRoom, TypeScanCheckEmpty, TypeScanReclaim,
       TypeScanGetRoom, TypeScanNotify DEF Scan
<1>5. ASSUME NEW m \in PeerObjs, Expire(m)  PROVE TypeInv'
    BY <1>5, TypeExpire
<1> QED BY <1>1, <1>2, <1>3, <1>4, <1>5 DEF Next, Ignore

-----------------------------------------------------------------------------
(* The registry and the heap *)

\* What every step except Room.Join of a new peer does to the registry: members
\* may go, none comes, and no Peer changes its id or its VIP.
RegistryKept ==
    /\ \A o \in RoomObjs, p \in PeerIDs : peers'[o][p] \in {peers[o][p], None}
    /\ \A m : Allocated(m) => /\ Allocated(m)'
                              /\ peer'[m].id = peer[m].id /\ peer'[m].vip = peer[m].vip

LEMMA RegistrySame ==
    ASSUME UNCHANGED <<peers, peer>>  PROVE RegistryKept
    BY DEF RegistryKept, Allocated

LEMMA RegistryOneField ==
    ASSUME TypeInv, UNCHANGED peers, NEW m, Allocated(m),
           NEW a \in Addrs, NEW v \in BOOLEAN, NEW t \in BOOLEAN,
           peer' \in { [peer EXCEPT ![m].addr = a, ![m].stale = t],
                       [peer EXCEPT ![m].voice = v], [peer EXCEPT ![m].stale = t] }
    PROVE  RegistryKept
<1>1. /\ \A x \in PeerObjs : x # m => peer'[x] = peer[x]
      /\ peer'[m] \in PeerRec /\ peer'[m].id = peer[m].id /\ peer'[m].vip = peer[m].vip
    BY DEF TypeInv, TypeOK, Allocated, PeerRec
<1> QED BY <1>1 DEF RegistryKept, Allocated

LEMMA RegistryJoinKnown ==
    ASSUME TypeInv, NEW h \in Handlers, JoinKnown(h)
    PROVE  RegistryKept
<1>1. PICK m : m = peers[hs[h].room][Req(h).id]
    OBVIOUS
<1>2. Req(h) \in Requests /\ Req(h).kind = "JoinRoom" /\ hs[h].room \in RoomObjs
    BY TypeHandler DEF JoinKnown, At, KindsAt
<1>3. Req(h).id \in PeerIDs /\ Req(h).from \in Addrs
    BY <1>2, RequestFields
<1>4. Allocated(m)
    BY <1>1, <1>2, <1>3 DEF JoinKnown, TypeInv, MembersOK
<1>5. UNCHANGED peers /\ peer' = [peer EXCEPT ![m].addr = Req(h).from, ![m].stale = FALSE]
    BY <1>1 DEF JoinKnown
<1> QED BY <1>3, <1>4, <1>5, RegistryOneField

LEMMA RegistryUpdate ==
    ASSUME TypeInv, NEW h \in Handlers, TouchPeer(h) \/ SetVoiceStatus(h)
    PROVE  RegistryKept
<1>1. PICK m : m = hs[h].peer
    OBVIOUS
<1>2. Allocated(m) /\ Req(h) \in Requests
    BY <1>1, TypeHandler DEF TouchPeer, SetVoiceStatus, At, HoldsPeer, PointersOK
<1>3. PICK a \in Addrs : TRUE
    BY <1>2 DEF Allocated, PeerRec
<1>4. CASE TouchPeer(h)
    <2>1. UNCHANGED peers /\ peer' = [peer EXCEPT ![m].stale = FALSE]
        BY <1>1, <1>4 DEF TouchPeer
    <2> QED BY <1>2, <1>3, <2>1, RegistryOneField
<1>5. CASE SetVoiceStatus(h)
    <2>1. UNCHANGED peers /\ peer' = [peer EXCEPT ![m].voice = Req(h).voice]
        BY <1>1, <1>5 DEF SetVoiceStatus
    <2>2. Req(h).voice \in BOOLEAN
        BY <1>2, <1>5, RequestFields DEF SetVoiceStatus, Is
    <2> QED BY <1>2, <1>3, <2>1, <2>2, RegistryOneField
<1> QED BY <1>4, <1>5

LEMMA RegistryExpire ==
    ASSUME TypeInv, NEW m \in PeerObjs, Expire(m)
    PROVE  RegistryKept
<1>1. Allocated(m)
    <2>1. PICK o \in RoomObjs : m \in Members(o)
        BY DEF Expire
    <2> QED BY <2>1, TypeMembers
<1>2. PICK a \in Addrs : TRUE
    BY <1>1 DEF Allocated, PeerRec
<1>3. UNCHANGED peers /\ peer' = [peer EXCEPT ![m].stale = TRUE]
    BY DEF Expire
<1> QED BY <1>1, <1>2, <1>3, RegistryOneField

LEMMA RegistryRemove ==
    ASSUME TypeInv,
           (\E h \in Handlers : Leave(h)) \/ (\E r \in RoomIDs : ScanRoom(r))
    PROVE  RegistryKept
<1>1. UNCHANGED peer
    BY DEF Leave, ScanRoom
<1>2. ASSUME NEW h \in Handlers, Leave(h),  NEW o \in RoomObjs, NEW p \in PeerIDs
      PROVE  peers'[o][p] \in {peers[o][p], None}
    <2>1. hs[h].room \in RoomObjs
        BY <1>2, TypeHandler DEF Leave, At
    <2> QED BY <1>2, <2>1 DEF Leave, TypeInv, TypeOK
<1>3. ASSUME NEW r \in RoomIDs, ScanRoom(r), NEW o \in RoomObjs, NEW p \in PeerIDs
      PROVE  peers'[o][p] \in {peers[o][p], None}
    <2>1. PICK out : peers' = [peers EXCEPT ![rooms[r]] =
                                 [q \in PeerIDs |-> IF q \in out THEN None ELSE @[q]]]
        BY <1>3 DEF ScanRoom
    <2> QED BY <2>1 DEF TypeInv, TypeOK
<1>4. \A o \in RoomObjs, p \in PeerIDs : peers'[o][p] \in {peers[o][p], None}
    BY <1>2, <1>3
<1> QED BY <1>1, <1>4 DEF RegistryKept, Allocated

LEMMA RegistryJoinGetRoom ==
    ASSUME TypeInv, NEW h \in Handlers, NEW m \in Requests, JoinGetRoom(h, m)
    PROVE  RegistryKept
<1>1. PICK p \in PeerObjs :
        /\ peer[p] = None /\ UNCHANGED peers
        /\ peer' = [peer EXCEPT ![p] = [id |-> m.id, addr |-> m.from, vip |-> 0,
                                        voice |-> FALSE, stale |-> FALSE]]
    BY DEF JoinGetRoom
<1>2. \A x \in PeerObjs : x # p => peer'[x] = peer[x]
    BY <1>1 DEF TypeInv, TypeOK
<1>3. \A x : Allocated(x) => x # p
    BY <1>1, NoneAssumption DEF Allocated
<1> QED BY <1>1, <1>2, <1>3 DEF RegistryKept, Allocated

LEMMA RegistryStep ==
    ASSUME TypeInv, [Next]_vars, \A h \in Handlers : ~JoinNew(h)
    PROVE  RegistryKept
<1>1. CASE UNCHANGED vars
    BY <1>1, RegistrySame DEF vars
<1>2. ASSUME NEW h \in Handlers, Proceed(h)  PROVE RegistryKept
    <2>1. CASE JoinAnnounce(h) \/ GetPeer(h) \/ Snapshot(h) \/ Broadcast(h)
                 \/ LeaveCheckEmpty(h) \/ LeaveReclaim(h) \/ Route(h) \/ Forward(h)
        BY <2>1, RegistrySame DEF JoinAnnounce, GetPeer, Snapshot, Broadcast,
           LeaveCheckEmpty, LeaveReclaim, Route, Forward
    <2> QED BY <1>2, <2>1, RegistryJoinKnown, RegistryUpdate, RegistryRemove DEF Proceed
<1>3. ASSUME NEW h \in Handlers, NEW m \in Requests, Receive(h, m)  PROVE RegistryKept
    <2>1. CASE GetRoom(h, m) \/ CompactLookup(h, m)
        BY <2>1, RegistrySame DEF GetRoom, CompactLookup
    <2> QED BY <1>3, <2>1, RegistryJoinGetRoom DEF Receive
<1>4. CASE Scan
    <2>1. CASE \E r \in RoomIDs : ScanRoom(r)
        BY <2>1, RegistryRemove
    <2>2. CASE ~\E r \in RoomIDs : ScanRoom(r)
        BY <1>4, <2>2, RegistrySame DEF Scan, ScanBegin, ScanCheckEmpty, ScanReclaim,
           ScanNotify, ScanGetRoom
    <2> QED BY <2>1, <2>2
<1>5. ASSUME NEW m \in PeerObjs, Expire(m)  PROVE RegistryKept
    BY <1>5, RegistryExpire
<1> QED BY <1>1, <1>2, <1>3, <1>4, <1>5 DEF Next, Ignore

\* What every step except the start of a join does to the local variables of a
\* handler g: its pointer stays, is dropped, or becomes a member of its room.
PointerKept(g) ==
    /\ hs'[g].pc = "join" => hs'[g] = hs[g]
    /\ \/ hs'[g].peer = None
       \/ hs'[g].peer = hs[g].peer /\ hs'[g].room = hs[g].room
       \/ /\ hs[g].room \in RoomObjs /\ hs'[g].room = hs[g].room
          /\ \E p \in PeerIDs : hs'[g].peer = peers[hs[g].room][p]
    /\ hs'[g].pc # "idle" /\ hs'[g].req.kind = "JoinRoom" =>
          hs[g].pc # "idle" /\ hs'[g].req = hs[g].req /\ hs'[g].peer = hs[g].peer

LEMMA PointerSame ==
    ASSUME NEW g, hs'[g] = hs[g]  PROVE PointerKept(g)
    BY DEF PointerKept

LEMMA PointerDone ==
    ASSUME TypeInv, NEW h \in Handlers, Done(h), NEW g \in Handlers
    PROVE  PointerKept(g)
<1>1. hs'[g] = IF g = h THEN Idle ELSE hs[g]
    BY DEF Done, TypeInv, TypeOK
<1> QED BY <1>1 DEF PointerKept, Idle

\* A handler that changes none of its variables but pc, vip and snap.
LEMMA PointerLocal ==
    ASSUME NEW h \in Handlers, hs[h].pc # "idle",
           \A g \in Handlers : g # h => hs'[g] = hs[g],
           hs'[h].pc # "join", hs'[h].req = hs[h].req,
           hs'[h].peer = hs[h].peer, hs'[h].room = hs[h].room
    PROVE  \A g \in Handlers : PointerKept(g)
    BY DEF PointerKept

LEMMA PointerProceed ==
    ASSUME TypeInv, NEW h \in Handlers, Proceed(h), NEW g \in Handlers
    PROVE  PointerKept(g)
<1> DEFINE Moved(pc) == /\ hs[h].pc # "idle" /\ pc # "join"
                        /\ \E v, s : hs' = [hs EXCEPT ![h] = [hs[h] EXCEPT
                                              !.pc = pc, !.vip = v, !.snap = s]]
<1>0. hs \in [Handlers -> HandlerRec]
    BY DEF TypeInv, TypeOK
<1>1. ASSUME NEW pc, Moved(pc)  PROVE PointerKept(g)
    <2>1. PICK v, s : hs' = [hs EXCEPT ![h] = [hs[h] EXCEPT
                                !.pc = pc, !.vip = v, !.snap = s]]
        BY <1>1
    <2>2. /\ \A x \in Handlers : x # h => hs'[x] = hs[x]
          /\ hs'[h].pc = pc /\ hs'[h].req = hs[h].req
          /\ hs'[h].peer = hs[h].peer /\ hs'[h].room = hs[h].room
        BY <1>0, <2>1 DEF HandlerRec
    <2> QED BY <1>1, <2>2, PointerLocal
<1>2. CASE JoinKnown(h)
    <2>1. PICK v : hs' = [hs EXCEPT ![h].pc = "snapshot", ![h].vip = v]
        BY <1>2 DEF JoinKnown
    <2>2. hs' = [hs EXCEPT ![h] = [hs[h] EXCEPT !.pc = "snapshot", !.vip = v, !.snap = hs[h].snap]]
        BY <1>0, <2>1 DEF HandlerRec
    <2>3. Moved("snapshot")
        BY <1>2, <2>2 DEF JoinKnown, At
    <2> HIDE DEF Moved
    <2> QED BY <1>1, <2>3
<1>3. CASE JoinNew(h)
    <2>1. PICK v : hs' = [hs EXCEPT ![h].pc = "snapshot", ![h].vip = v]
        BY <1>3 DEF JoinNew
    <2>2. hs' = [hs EXCEPT ![h] = [hs[h] EXCEPT !.pc = "snapshot", !.vip = v, !.snap = hs[h].snap]]
        BY <1>0, <2>1 DEF HandlerRec
    <2>3. Moved("snapshot")
        BY <1>3, <2>2 DEF JoinNew, At
    <2> HIDE DEF Moved
    <2> QED BY <1>1, <2>3
<1>4. ASSUME NEW pc, Goto(h, pc), hs[h].pc # "idle", pc # "join"  PROVE PointerKept(g)
    <2>1. hs' = [hs EXCEPT ![h] = [hs[h] EXCEPT !.pc = pc, !.vip = hs[h].vip, !.snap = hs[h].snap]]
        BY <1>0, <1>4 DEF Goto, HandlerRec
    <2>2. Moved(pc)
        BY <1>4, <2>1
    <2> HIDE DEF Moved
    <2> QED BY <1>1, <2>2
<1>5. CASE Snapshot(h)
    <2>1. PICK s : s = Members(hs[h].room)
        OBVIOUS
    <2>2. hs' = [hs EXCEPT ![h] = [hs[h] EXCEPT !.pc = "send", !.vip = hs[h].vip, !.snap = s]]
        BY <1>0, <1>5, <2>1 DEF Snapshot, HandlerRec
    <2>3. Moved("send")
        BY <1>5, <2>2 DEF Snapshot, At
    <2> HIDE DEF Moved
    <2> QED BY <1>1, <2>3
<1> HIDE DEF Moved
<1>6. CASE SetVoiceStatus(h) \/ Leave(h) \/ Broadcast(h) \/ LeaveCheckEmpty(h)
    BY <1>6, <1>4, PointerDone DEF SetVoiceStatus, Leave, Broadcast, LeaveCheckEmpty, At
<1>7. CASE JoinAnnounce(h) \/ TouchPeer(h) \/ LeaveReclaim(h) \/ Forward(h)
    BY <1>7, PointerDone DEF JoinAnnounce, TouchPeer, LeaveReclaim, Forward
<1>8. ASSUME NEW m, NEW pc, NEW p \in PeerIDs, pc # "join", hs[h].pc # "idle",
             Req(h).kind # "JoinRoom", hs[h].room \in RoomObjs,
             m = peers[hs[h].room][p], hs' = [hs EXCEPT ![h].peer = m, ![h].pc = pc]
      PROVE  PointerKept(g)
    <2>1. CASE g = h
        <3>1. /\ hs'[g].pc = pc /\ hs'[g].req = hs[g].req
              /\ hs'[g].peer = m /\ hs'[g].room = hs[g].room
            BY <1>0, <1>8, <2>1 DEF HandlerRec
        <3> QED BY <1>8, <2>1, <3>1 DEF PointerKept, Req
    <2>2. CASE g # h
        BY <1>0, <1>8, <2>2, PointerSame
    <2> QED BY <2>1, <2>2
<1>9. CASE GetPeer(h)
    <2>1. PICK m, pc : /\ m = peers[hs[h].room][Req(h).id]
                       /\ pc = IF Is(h, "PeerMetrics") THEN "snapshot" ELSE "update"
        OBVIOUS
    <2>2. /\ hs[h].pc # "idle" /\ hs[h].room \in RoomObjs /\ Req(h) \in Requests
          /\ Req(h).kind \in {"Ping", "PeerStatus", "PeerMetrics"}
        BY <1>9, TypeHandler DEF GetPeer, At, KindsAt
    <2>3. Req(h).id \in PeerIDs
        BY <2>2, RequestFields
    <2>4. CASE m = None
        BY <1>9, <2>1, <2>4, PointerDone DEF GetPeer
    <2>5. CASE m # None
        <3>1. hs' = [hs EXCEPT ![h].peer = m, ![h].pc = pc] /\ pc # "join"
            BY <1>9, <2>1, <2>5 DEF GetPeer
        <3> QED BY <1>8, <2>1, <2>2, <2>3, <3>1
    <2> QED BY <2>4, <2>5
<1>10. CASE Route(h)
    <2>1. /\ hs[h].pc # "idle" /\ hs[h].room \in RoomObjs /\ Req(h).kind # "JoinRoom"
        BY <1>10, TypeHandler DEF Route, At, KindsAt
    <2>2. ASSUME NEW m \in PeersByVIP(hs[h].room, Req(h).vip),
                 hs' = [hs EXCEPT ![h].peer = m, ![h].pc = "forward"]
          PROVE  PointerKept(g)
        <3>1. PICK p \in PeerIDs : m = peers[hs[h].room][p]
            BY <2>2 DEF PeersByVIP, Members
        <3> QED BY <1>8, <2>1, <2>2, <3>1
    <2> QED BY <1>10, <2>2, PointerDone DEF Route
<1> QED BY <1>2, <1>3, <1>5, <1>6, <1>7, <1>9, <1>10 DEF Proceed

LEMMA PointerStep ==
    ASSUME TypeInv, [Next]_vars,
           \A h \in Handlers, m \in Requests : ~JoinGetRoom(h, m),
           NEW g \in Handlers
    PROVE  PointerKept(g)
<1>0. hs \in [Handlers -> HandlerRec]
    BY DEF TypeInv, TypeOK
<1>1. ASSUME NEW h \in Handlers, NEW m \in Requests, Receive(h, m)  PROVE PointerKept(g)
    <2>1. ASSUME NEW pc, NEW o, pc # "join", m.kind # "JoinRoom",
                 hs' = [hs EXCEPT ![h] = [Idle EXCEPT !.pc = pc, !.req = m, !.room = o]]
          PROVE  PointerKept(g)
        <3>1. hs'[g] = IF g = h THEN [Idle EXCEPT !.pc = pc, !.req = m, !.room = o] ELSE hs[g]
            BY <1>0, <2>1
        <3> QED BY <2>1, <3>1 DEF PointerKept, Idle
    <2>2. CASE GetRoom(h, m)
        <3>1. AfterGet[m.kind] # "join" /\ m.kind # "JoinRoom"
            BY <2>2 DEF GetRoom, AfterGet
        <3> QED BY <2>1, <2>2, <3>1 DEF GetRoom
    <2>3. CASE CompactLookup(h, m)
        BY <2>1, <2>3 DEF CompactLookup
    <2> QED BY <1>1, <2>2, <2>3 DEF Receive
<1>2. CASE UNCHANGED hs
    BY <1>2, PointerSame
<1>3. CASE Scan
    BY <1>2, <1>3 DEF Scan, ScanBegin, ScanRoom, ScanCheckEmpty, ScanReclaim, ScanGetRoom, ScanNotify
<1>4. ASSUME NEW m \in PeerObjs, Expire(m)  PROVE PointerKept(g)
    BY <1>2, <1>4 DEF Expire
<1> QED BY <1>1, <1>2, <1>3, <1>4, PointerProceed DEF Next, Ignore, vars

LEMMA JoinerHolds ==
    ASSUME TypeInv, NEW h \in Handlers, ~At(h, "idle"), Req(h).kind = "JoinRoom"
    PROVE  hs[h].peer # None
<1>1. hs[h] \in HandlerRec /\ Req(h).kind \in KindsAt(hs[h].pc)
    BY TypeHandler
<1>2. hs[h].pc \in {"join", "snapshot", "send"}
    BY <1>1 DEF HandlerRec, KindsAt, At
<1> QED BY <1>2, TypeHandler DEF HoldsPeer, Req

LEMMA HeapKept ==
    ASSUME HeapInv, RegistryKept, \A g \in Handlers : PointerKept(g)
    PROVE  Fresh' /\ JoinerID' /\ OneHome'
<1>0. TypeInv /\ Fresh /\ JoinerID /\ OneHome
    BY DEF HeapInv
<1>1. ASSUME NEW g \in Handlers, hs'[g].pc = "join"
      PROVE  hs'[g] = hs[g] /\ hs[g].pc = "join" /\ hs[g].peer # None
    BY <1>0, <1>1, TypeHandler DEF PointerKept, At, HoldsPeer
<1>2. Fresh'
    <2> SUFFICES ASSUME NEW g \in Handlers, hs'[g].pc = "join"
                 PROVE  /\ \A o \in RoomObjs, p \in PeerIDs : peers'[o][p] # hs'[g].peer
                        /\ \A x \in Handlers : x # g => hs'[x].peer # hs'[g].peer
        BY DEF Fresh, At
    <2>1. \A o \in RoomObjs, p \in PeerIDs : peers[o][p] # hs[g].peer
        BY <1>0, <1>1 DEF Fresh, At
    <2>2. \A o \in RoomObjs, p \in PeerIDs : peers'[o][p] # hs'[g].peer
        BY <1>1, <2>1 DEF RegistryKept
    <2>3. ASSUME NEW x \in Handlers, x # g  PROVE hs'[x].peer # hs'[g].peer
        <3>1. hs[x].peer # hs[g].peer
            BY <1>0, <1>1, <2>3 DEF Fresh, At
        <3> QED BY <1>1, <2>1, <3>1 DEF PointerKept
    <2> QED BY <2>2, <2>3
<1>3. JoinerID'
    <2> SUFFICES ASSUME NEW g \in Handlers, hs'[g].pc # "idle", hs'[g].req.kind = "JoinRoom"
                 PROVE  peer'[hs'[g].peer].id = hs'[g].req.id
        BY DEF JoinerID, At, Is, Req
    <2>1. /\ hs[g].pc # "idle" /\ hs'[g].req = hs[g].req /\ hs'[g].peer = hs[g].peer
        BY DEF PointerKept
    <2>2. hs[g].peer # None
        BY <1>0, <2>1, JoinerHolds DEF At, Req
    <2>3. Allocated(hs[g].peer) /\ peer[hs[g].peer].id = hs[g].req.id
        BY <1>0, <2>1, <2>2, TypeHandler DEF JoinerID, At, Is, Req, PointersOK
    <2> QED BY <2>1, <2>3 DEF RegistryKept
<1>4. OneHome'
    <2>1. ASSUME NEW o \in RoomObjs, NEW x \in RoomObjs, NEW p \in PeerIDs, NEW q \in PeerIDs,
                 peers'[o][p] # None, peers'[o][p] = peers'[x][q]
          PROVE  o = x
        BY <1>0, <2>1 DEF RegistryKept, OneHome
    <2>2. ASSUME NEW g \in Handlers, NEW o \in RoomObjs, NEW p \in PeerIDs,
                 hs'[g].peer # None, peers'[o][p] = hs'[g].peer
          PROVE  o = hs'[g].room
        <3>1. peers[o][p] = hs'[g].peer
            BY <2>2 DEF RegistryKept
        <3>2. CASE hs'[g].peer = hs[g].peer /\ hs'[g].room = hs[g].room
            BY <1>0, <2>2, <3>1, <3>2 DEF OneHome
        <3>3. CASE /\ hs[g].room \in RoomObjs /\ hs'[g].room = hs[g].room
                   /\ \E q \in PeerIDs : hs'[g].peer = peers[hs[g].room][q]
            BY <1>0, <2>2, <3>1, <3>3 DEF OneHome
        <3> QED BY <2>2, <3>2, <3>3 DEF PointerKept
    <2> QED BY <2>1, <2>2 DEF OneHome
<1> QED BY <1>2, <1>3, <1>4

\* A handler that starts a join holds a Peer nobody else knows.
LEMMA HeapJoinGetRoom ==
    ASSUME HeapInv, NEW h \in Handlers, NEW m \in Requests, JoinGetRoom(h, m)
    PROVE  Fresh' /\ JoinerID' /\ OneHome'
<1>0. TypeInv /\ Fresh /\ JoinerID /\ OneHome /\ RegistryKept
    BY RegistryJoinGetRoom DEF HeapInv
<1>1. PICK o \in RoomObjs, p \in PeerObjs :
        /\ peer[p] = None /\ UNCHANGED peers /\ m.kind = "JoinRoom"
        /\ peer' = [peer EXCEPT ![p] = [id |-> m.id, addr |-> m.from, vip |-> 0,
                                        voice |-> FALSE, stale |-> FALSE]]
        /\ hs' = [hs EXCEPT ![h] = [Idle EXCEPT !.pc = "join", !.req = m,
                                                !.room = o, !.peer = p]]
    BY DEF JoinGetRoom
<1>2. /\ \A g \in Handlers : g # h => hs'[g] = hs[g]
      /\ hs'[h].pc = "join" /\ hs'[h].req = m /\ hs'[h].room = o /\ hs'[h].peer = p
      /\ peer'[p].id = m.id
    BY <1>0, <1>1 DEF TypeInv, TypeOK, Idle
<1>3. \A x : Allocated(x) => x # p
    BY <1>1, NoneAssumption DEF Allocated
<1>4. p # None /\ \A x \in RoomObjs, q \in PeerIDs : peers[x][q] # p
    BY <1>0, <1>3, NoneAssumption DEF TypeInv, MembersOK
<1>5. \A g \in Handlers : hs[g].peer # p
    BY <1>0, <1>3, <1>4 DEF TypeInv, PointersOK
<1>6. Fresh'
    <2> SUFFICES ASSUME NEW g \in Handlers, hs'[g].pc = "join"
                 PROVE  /\ \A x \in RoomObjs, q \in PeerIDs : peers'[x][q] # hs'[g].peer
                        /\ \A f \in Handlers : f # g => hs'[f].peer # hs'[g].peer
        BY DEF Fresh, At
    <2>1. CASE g = h
        BY <1>1, <1>2, <1>4, <1>5, <2>1
    <2>2. CASE g # h
        BY <1>0, <1>1, <1>2, <1>5, <2>2 DEF Fresh, At
    <2> QED BY <2>1, <2>2
<1>7. JoinerID'
    <2> SUFFICES ASSUME NEW g \in Handlers, hs'[g].pc # "idle", hs'[g].req.kind = "JoinRoom"
                 PROVE  peer'[hs'[g].peer].id = hs'[g].req.id
        BY DEF JoinerID, At, Is, Req
    <2>1. CASE g = h
        BY <1>2, <2>1
    <2>2. CASE g # h
        <3>1. hs'[g] = hs[g] /\ ~At(g, "idle") /\ Req(g).kind = "JoinRoom"
            BY <1>2, <2>2 DEF At, Req
        <3>2. hs[g].peer # None
            BY <1>0, <3>1, JoinerHolds
        <3>3. Allocated(hs[g].peer) /\ peer[hs[g].peer].id = hs[g].req.id
            BY <1>0, <3>1, <3>2, TypeHandler DEF JoinerID, Is, Req, PointersOK
        <3> QED BY <1>0, <3>1, <3>3 DEF RegistryKept
    <2> QED BY <2>1, <2>2
<1>8. OneHome'
    BY <1>0, <1>1, <1>2, <1>4 DEF OneHome
<1> QED BY <1>6, <1>7, <1>8

\* Room.Join moves the Peer from the handler's own hands into one room.
LEMMA HeapJoinNew ==
    ASSUME HeapInv, NEW h \in Handlers, JoinNew(h)
    PROVE  Fresh' /\ JoinerID' /\ OneHome'
<1>0. TypeInv /\ Fresh /\ JoinerID /\ OneHome /\ \A g \in Handlers : PointerKept(g)
    BY PointerProceed DEF HeapInv, Proceed
<1>1. PICK o, m, v, q : o = hs[h].room /\ m = hs[h].peer /\ v = AllocVIP(o) /\ q = hs[h].req
    OBVIOUS
<1>2. /\ hs[h].pc = "join" /\ o \in RoomObjs /\ q \in Requests /\ q.kind = "JoinRoom"
      /\ m # None /\ Allocated(m)
    BY <1>0, <1>1, TypeHandler DEF JoinNew, At, KindsAt, HoldsPeer, PointersOK, Req
<1>3. q.id \in PeerIDs
    BY <1>2, RequestFields
<1>4. /\ peers' = [peers EXCEPT ![o][q.id] = m]
      /\ peer' = [peer EXCEPT ![m].vip = v]
      /\ hs' = [hs EXCEPT ![h].pc = "snapshot", ![h].vip = v]
    BY <1>1 DEF JoinNew, Req
<1>5. /\ \A x \in RoomObjs, p \in PeerIDs :
            peers'[x][p] = IF x = o /\ p = q.id THEN m ELSE peers[x][p]
      /\ \A x : Allocated(x) => peer'[x].id = peer[x].id
      /\ \A g \in Handlers : g # h => hs'[g] = hs[g]
      /\ hs'[h].pc = "snapshot" /\ hs'[h].req = q /\ hs'[h].peer = m /\ hs'[h].room = o
    BY <1>0, <1>1, <1>2, <1>3, <1>4 DEF TypeInv, TypeOK, Allocated, HandlerRec, PeerRec
<1>6. /\ \A x \in RoomObjs, p \in PeerIDs : peers[x][p] # m
      /\ \A g \in Handlers : g # h => hs[g].peer # m
    BY <1>0, <1>1, <1>2 DEF Fresh, At
<1>7. Fresh'
    <2> SUFFICES ASSUME NEW g \in Handlers, hs'[g].pc = "join"
                 PROVE  /\ \A x \in RoomObjs, p \in PeerIDs : peers'[x][p] # hs'[g].peer
                        /\ \A f \in Handlers : f # g => hs'[f].peer # hs'[g].peer
        BY DEF Fresh, At
    <2>1. g # h /\ hs'[g] = hs[g] /\ hs[g].pc = "join"
        BY <1>5
    <2>2. \A x \in RoomObjs, p \in PeerIDs : peers[x][p] # hs[g].peer
        BY <1>0, <2>1 DEF Fresh, At
    <2>3. \A f \in Handlers : f # g => hs[f].peer # hs[g].peer
        BY <1>0, <2>1 DEF Fresh, At
    <2> QED BY <1>1, <1>5, <1>6, <2>1, <2>2, <2>3
<1>8. JoinerID'
    <2> SUFFICES ASSUME NEW g \in Handlers, hs'[g].pc # "idle", hs'[g].req.kind = "JoinRoom"
                 PROVE  peer'[hs'[g].peer].id = hs'[g].req.id
        BY DEF JoinerID, At, Is, Req
    <2>1. /\ ~At(g, "idle") /\ hs'[g].req = hs[g].req /\ hs'[g].peer = hs[g].peer
          /\ Req(g).kind = "JoinRoom"
        BY <1>0 DEF PointerKept, At, Req
    <2>2. hs[g].peer # None
        BY <1>0, <2>1, JoinerHolds
    <2>3. Allocated(hs[g].peer) /\ peer[hs[g].peer].id = hs[g].req.id
        BY <1>0, <2>1, <2>2, TypeHandler DEF JoinerID, Is, Req, PointersOK
    <2> QED BY <1>5, <2>1, <2>3
<1>9. OneHome'
    <2>1. ASSUME NEW x \in RoomObjs, NEW y \in RoomObjs, NEW p \in PeerIDs, NEW r \in PeerIDs,
                 peers'[x][p] # None, peers'[x][p] = peers'[y][r]
          PROVE  x = y
        BY <1>0, <1>5, <1>6, <2>1 DEF OneHome
    <2>2. ASSUME NEW g \in Handlers, NEW x \in RoomObjs, NEW p \in PeerIDs,
                 hs'[g].peer # None, peers'[x][p] = hs'[g].peer
          PROVE  x = hs'[g].room
        BY <1>0, <1>5, <1>6, <2>2 DEF OneHome
    <2> QED BY <2>1, <2>2 DEF OneHome
<1> QED BY <1>7, <1>8, <1>9

LEMMA HeapInit == Init => HeapInv
<1> SUFFICES ASSUME Init  PROVE HeapInv
    OBVIOUS
<1>1. Fresh /\ JoinerID /\ OneHome
    BY DEF Init, Fresh, JoinerID, OneHome, At, Idle
<1> QED BY <1>1, TypeInit DEF HeapInv

LEMMA HeapNext == HeapInv /\ [Next]_vars => HeapInv'
<1> SUFFICES ASSUME HeapInv, [Next]_vars  PROVE HeapInv'
    OBVIOUS
<1>1. TypeInv'
    BY TypeNext DEF HeapInv
<1>2. Fresh' /\ JoinerID' /\ OneHome'
    <2>1. CASE \E h \in Handlers : JoinNew(h)
        BY <2>1, HeapJoinNew
    <2>2. CASE \E h \in Handlers, m \in Requests : JoinGetRoom(h, m)
        BY <2>2, HeapJoinGetRoom
    <2>3. CASE /\ ~\E h \in Handlers : JoinNew(h)
               /\ ~\E h \in Handlers, m \in Requests : JoinGetRoom(h, m)
        BY <2>3, HeapKept, RegistryStep, PointerStep DEF HeapInv
    <2> QED BY <2>1, <2>2, <2>3
<1> QED BY <1>1, <1>2 DEF HeapInv

LEMMA HeapCorrect == Spec => []HeapInv
<1>1. Init => HeapInv
    BY HeapInit
<1>2. HeapInv /\ [Next]_vars => HeapInv'
    BY HeapNext
<1> QED BY <1>1, <1>2, PTL DEF Spec

\* The variables keep their types: every pointer a goroutine follows leads to a
\* Peer that exists, whatever packets arrive and however handlers interleave.
THEOREM TypeCorrect == Spec => []TypeOK
<1>1. HeapInv => TypeOK
    BY DEF HeapInv, TypeInv
<1> QED BY <1>1, HeapCorrect, PTL

-----------------------------------------------------------------------------
(* Virtual IPs *)

\* VIPUnique and VIPDense, slot by slot.
LEMMA VIPsBySlot ==
    ASSUME HeapInv
    PROVE  /\ VIPUnique <=>
                \A o \in RoomObjs, p, q \in PeerIDs :
                    /\ peers[o][p] # None /\ peers[o][q] # None
                    /\ peer[peers[o][p]].vip = peer[peers[o][q]].vip
                  => p = q
           /\ VIPDense <=>
                \A o \in RoomObjs, p \in PeerIDs : peers[o][p] # None =>
                    peer[peers[o][p]].vip \in VIPStart .. (VIPStart + Cardinality(PeerIDs) - 1)
<1>1. \A o \in RoomObjs, p \in PeerIDs : peers[o][p] # None => peer[peers[o][p]].id = p
    BY DEF HeapInv, TypeInv, MembersOK
<1> QED BY <1>1 DEF VIPUnique, VIPDense, Members

LEMMA VIPInit == Init => VIPInv
<1> SUFFICES ASSUME Init  PROVE VIPInv
    OBVIOUS
<1>1. VIPUnique /\ VIPDense
    BY DEF Init, VIPUnique, VIPDense, Members
<1> QED BY <1>1, HeapInit DEF VIPInv

\* A step that admits nobody takes no VIP.
LEMMA VIPKept ==
    ASSUME VIPInv, HeapInv', RegistryKept
    PROVE  VIPUnique' /\ VIPDense'
<1>1. \A o \in RoomObjs, p \in PeerIDs : peers'[o][p] # None =>
        /\ peers[o][p] = peers'[o][p]
        /\ peer'[peers'[o][p]].vip = peer[peers[o][p]].vip
    BY DEF RegistryKept, VIPInv, HeapInv, TypeInv, MembersOK
<1>2. VIPUnique'
    <2>1. \A o \in RoomObjs, p, q \in PeerIDs :
            /\ peers[o][p] # None /\ peers[o][q] # None
            /\ peer[peers[o][p]].vip = peer[peers[o][q]].vip
          => p = q
        BY VIPsBySlot DEF VIPInv
    <2>2. \A o \in RoomObjs, p, q \in PeerIDs :
            /\ peers'[o][p] # None /\ peers'[o][q] # None
            /\ peer'[peers'[o][p]].vip = peer'[peers'[o][q]].vip
          => p = q
        BY <1>1, <2>1
    <2>3. \A o \in RoomObjs, p \in PeerIDs : peers'[o][p] # None => peer'[peers'[o][p]].id = p
        BY DEF HeapInv, TypeInv, MembersOK
    <2> QED BY <2>2, <2>3 DEF VIPUnique, Members
<1>3. VIPDense'
    <2>1. \A o \in RoomObjs, p \in PeerIDs : peers[o][p] # None =>
            peer[peers[o][p]].vip \in VIPStart .. (VIPStart + Cardinality(PeerIDs) - 1)
        BY VIPsBySlot DEF VIPInv
    <2> QED BY <1>1, <2>1 DEF VIPDense, Members
<1> QED BY <1>2, <1>3

\* What Room.Join of a new peer does: the join h puts its Peer m into the slot
\* of the client p in the room o and gives it the VIP v.
Admits(h, o, p, m, v) ==
    /\ o \in RoomObjs /\ p \in PeerIDs /\ m \in PeerObjs /\ v \in VIPs
    /\ o = hs[h].room /\ p = Req(h).id /\ m = hs[h].peer
    /\ Req(h).kind = "JoinRoom" /\ hs[h].pc = "join" /\ m # None /\ Allocated(m)
    /\ peers[o][p] = None /\ peer[m].id = p
    /\ \A x \in RoomObjs, q \in PeerIDs :
         /\ peers[x][q] # m
         /\ peers'[x][q] = IF x = o /\ q = p THEN m ELSE peers[x][q]
    /\ \A x \in PeerObjs : x # m => peer'[x] = peer[x]
    /\ peer'[m] = [peer[m] EXCEPT !.vip = v]
    /\ peer'[m].vip = v /\ peer'[m].id = p
    /\ v \in VIPStart .. (VIPStart + Cardinality(PeerIDs) - 1)
    /\ \A q \in PeerIDs : peers[o][q] # None => peer[peers[o][q]].vip # v
    /\ \A g \in Handlers : g # h => hs'[g] = hs[g]
    /\ hs'[h] = [hs[h] EXCEPT !.pc = "snapshot", !.vip = v]

LEMMA JoinNewEffect ==
    ASSUME HeapInv, NEW h \in Handlers, JoinNew(h)
    PROVE  \E o, p, m, v : Admits(h, o, p, m, v)
<1>1. PICK o, m, v, p : o = hs[h].room /\ m = hs[h].peer /\ v = AllocVIP(o) /\ p = Req(h).id
    OBVIOUS
<1>0. TypeInv /\ Fresh /\ JoinerID
    BY DEF HeapInv
<1>2. /\ hs[h].pc = "join" /\ o \in RoomObjs /\ Req(h) \in Requests
      /\ Req(h).kind = "JoinRoom" /\ m # None /\ Allocated(m) /\ hs[h] \in HandlerRec
    BY <1>0, <1>1, TypeHandler DEF JoinNew, At, KindsAt, HoldsPeer, PointersOK
<1>3. p \in PeerIDs /\ m \in PeerObjs /\ peer[m].id = p
    BY <1>0, <1>1, <1>2, RequestFields DEF JoinerID, At, Is, Allocated
<1>4. /\ peers' = [peers EXCEPT ![o][p] = m]
      /\ peer' = [peer EXCEPT ![m].vip = v]
      /\ hs' = [hs EXCEPT ![h].pc = "snapshot", ![h].vip = v]
      /\ peers[o][p] = None
    BY <1>1 DEF JoinNew
<1>5. \A x \in RoomObjs, q \in PeerIDs :
        /\ peers[x][q] # m
        /\ peers'[x][q] = IF x = o /\ q = p THEN m ELSE peers[x][q]
    BY <1>0, <1>1, <1>2, <1>3, <1>4 DEF Fresh, At, TypeInv, TypeOK
<1>6. v \in VIPs \ UsedVIPs(o) /\ v \in VIPStart .. (VIPStart + Cardinality(PeerIDs) - 1)
    BY <1>0, <1>1, <1>2, <1>3, <1>4, AllocVIPFree DEF TypeInv
<1>7. \A q \in PeerIDs : peers[o][q] # None => peer[peers[o][q]].vip # v
    BY <1>6 DEF UsedVIPs, Members
<1>8. /\ \A x \in PeerObjs : x # m => peer'[x] = peer[x]
      /\ peer'[m] = [peer[m] EXCEPT !.vip = v] /\ peer'[m].vip = v /\ peer'[m].id = p
    BY <1>0, <1>2, <1>3, <1>4 DEF TypeInv, TypeOK, Allocated, PeerRec
<1>9. /\ \A g \in Handlers : g # h => hs'[g] = hs[g]
      /\ hs'[h] = [hs[h] EXCEPT !.pc = "snapshot", !.vip = v]
    BY <1>0, <1>2, <1>4 DEF TypeInv, TypeOK, HandlerRec
<1>10. Admits(h, o, p, m, v)
    BY <1>1, <1>2, <1>3, <1>4, <1>5, <1>6, <1>7, <1>8, <1>9 DEF Admits
<1> QED BY <1>10

\* The VIP of a newcomer is one that no member holds.
LEMMA VIPJoinNew ==
    ASSUME VIPInv, HeapInv', NEW h \in Handlers, JoinNew(h)
    PROVE  VIPUnique' /\ VIPDense'
<1>0. PICK o, p, m, v : Admits(h, o, p, m, v)
    BY JoinNewEffect DEF VIPInv
<1>1. /\ o \in RoomObjs /\ p \in PeerIDs /\ m \in PeerObjs /\ m # None
      /\ \A x \in RoomObjs, q \in PeerIDs :
           /\ peers[x][q] # m
           /\ peers'[x][q] = IF x = o /\ q = p THEN m ELSE peers[x][q]
      /\ \A x \in PeerObjs : x # m => peer'[x] = peer[x]
      /\ peer'[m].vip = v
      /\ v \in VIPStart .. (VIPStart + Cardinality(PeerIDs) - 1)
      /\ \A q \in PeerIDs : peers[o][q] # None => peer[peers[o][q]].vip # v
    BY <1>0 DEF Admits
<1>2. \A x \in RoomObjs, q \in PeerIDs : peers[x][q] # None =>
        peers[x][q] \in PeerObjs /\ peer'[peers[x][q]].vip = peer[peers[x][q]].vip
    BY <1>1 DEF VIPInv, HeapInv, TypeInv, MembersOK, Allocated
<1>3. VIPUnique'
    <2>1. \A x \in RoomObjs, q, r \in PeerIDs :
            /\ peers[x][q] # None /\ peers[x][r] # None
            /\ peer[peers[x][q]].vip = peer[peers[x][r]].vip
          => q = r
        BY VIPsBySlot DEF VIPInv
    <2>2. ASSUME NEW x \in RoomObjs, NEW q \in PeerIDs, NEW r \in PeerIDs,
                 peers'[x][q] # None, peers'[x][r] # None,
                 peer'[peers'[x][q]].vip = peer'[peers'[x][r]].vip
          PROVE  q = r
        <3>1. CASE x # o \/ (q # p /\ r # p)
            BY <1>1, <1>2, <2>1, <2>2, <3>1
        <3>2. CASE x = o /\ (q = p \/ r = p)
            BY <1>1, <1>2, <2>2, <3>2
        <3> QED BY <3>1, <3>2
    <2>3. \A x \in RoomObjs, q \in PeerIDs : peers'[x][q] # None => peer'[peers'[x][q]].id = q
        BY DEF HeapInv, TypeInv, MembersOK
    <2> QED BY <2>2, <2>3 DEF VIPUnique, Members
<1>4. VIPDense'
    <2>1. \A x \in RoomObjs, q \in PeerIDs : peers[x][q] # None =>
            peer[peers[x][q]].vip \in VIPStart .. (VIPStart + Cardinality(PeerIDs) - 1)
        BY VIPsBySlot DEF VIPInv
    <2>2. ASSUME NEW x \in RoomObjs, NEW q \in PeerIDs, peers'[x][q] # None
          PROVE  peer'[peers'[x][q]].vip \in VIPStart .. (VIPStart + Cardinality(PeerIDs) - 1)
        <3>1. CASE x = o /\ q = p
            <4>1. peers'[x][q] = m
                BY <1>1, <3>1
            <4> QED BY <1>1, <4>1
        <3>2. CASE ~(x = o /\ q = p)
            <4>1. peers'[x][q] = peers[x][q]
                BY <1>1, <2>2, <3>2
            <4> QED BY <1>2, <2>1, <2>2, <4>1
        <3> QED BY <3>1, <3>2
    <2> QED BY <2>2 DEF VIPDense, Members
<1> QED BY <1>3, <1>4

LEMMA VIPNext == VIPInv /\ [Next]_vars => VIPInv'
<1> SUFFICES ASSUME VIPInv, [Next]_vars  PROVE VIPInv'
    OBVIOUS
<1>1. HeapInv'
    BY HeapNext DEF VIPInv
<1>2. CASE \E h \in Handlers : JoinNew(h)
    BY <1>1, <1>2, VIPJoinNew DEF VIPInv
<1>3. CASE ~\E h \in Handlers : JoinNew(h)
    BY <1>1, <1>3, RegistryStep, VIPKept DEF VIPInv, HeapInv
<1> QED BY <1>2, <1>3

LEMMA VIPCorrect == Spec => []VIPInv
    BY VIPInit, VIPNext, PTL DEF Spec

\* No two members of a room hold the same virtual IP.
THEOREM VIPsUnique == Spec => []VIPUnique
<1>1. VIPInv => VIPUnique
    BY DEF VIPInv
<1> QED BY <1>1, VIPCorrect, PTL

\* Reconnecting never drives the numbers above what the clients call for.
THEOREM VIPsDense == Spec => []VIPDense
<1>1. VIPInv => VIPDense
    BY DEF VIPInv
<1> QED BY <1>1, VIPCorrect, PTL

\* A client keeps its VIP as long as it stays registered in a room.
THEOREM VIPsStable == Spec => VIPStable
<1>1. ASSUME VIPInv, [Next]_vars, NEW o \in RoomObjs, NEW p \in PeerIDs,
             peers[o][p] # None, peers'[o][p] # None
      PROVE  peer'[peers'[o][p]].vip = peer[peers[o][p]].vip
    <2>0. HeapInv /\ TypeInv /\ Allocated(peers[o][p])
        BY <1>1 DEF VIPInv, HeapInv, TypeInv, MembersOK
    <2>1. CASE ~\E h \in Handlers : JoinNew(h)
        BY <1>1, <2>0, <2>1, RegistryStep DEF RegistryKept
    <2>2. CASE \E h \in Handlers : JoinNew(h)
        <3>1. PICK h \in Handlers : JoinNew(h)
            BY <2>2
        <3>2. PICK x, q, m, v : Admits(h, x, q, m, v)
            BY <2>0, <3>1, JoinNewEffect
        <3>3. peers'[o][p] = peers[o][p] /\ peers[o][p] # m
            BY <1>1, <3>2 DEF Admits
        <3>4. peer'[peers[o][p]] = peer[peers[o][p]]
            BY <2>0, <3>2, <3>3 DEF Admits, Allocated
        <3> QED BY <3>3, <3>4
    <2> QED BY <2>1, <2>2
<1>2. VIPInv /\ [Next]_vars =>
        [\A o \in RoomObjs, p \in PeerIDs :
           peers[o][p] # None /\ peers'[o][p] # None
             => peer'[peers'[o][p]].vip = peer[peers[o][p]].vip]_vars
    BY <1>1
<1> QED BY <1>2, VIPCorrect, PTL DEF Spec, VIPStable

-----------------------------------------------------------------------------
(* The refinement of RoomDirectory *)

LEMMA LeaseSlots ==
    /\ Leases = [o \in RoomObjs |-> [p \in PeerIDs |-> Leases[o][p]]]
    /\ \A o \in RoomObjs, p \in PeerIDs :
          Leases[o][p] = IF peers[o][p] = None THEN None ELSE peer[peers[o][p]].vip
    BY DEF Leases

\* A step that admits nobody touches the members of one room at most.
LEMMA OneRoomChanges ==
    ASSUME TypeInv, [Next]_vars, \A h \in Handlers : ~JoinNew(h)
    PROVE  \E o : \A x \in RoomObjs : x # o => peers'[x] = peers[x]
<1>1. CASE \E h \in Handlers : Leave(h)
    <2>1. PICK h \in Handlers : Leave(h)
        BY <1>1
    <2>2. PICK o : o = hs[h].room
        OBVIOUS
    <2>3. \A x \in RoomObjs : x # o => peers'[x] = peers[x]
        BY <2>1, <2>2 DEF Leave, TypeInv, TypeOK
    <2> QED BY <2>3
<1>2. CASE \E r \in RoomIDs : ScanRoom(r)
    <2>1. PICK r \in RoomIDs : ScanRoom(r)
        BY <1>2
    <2>2. PICK o : o = rooms[r]
        OBVIOUS
    <2>3. PICK f : peers' = [peers EXCEPT ![o] = f]
        BY <2>1, <2>2 DEF ScanRoom
    <2>4. \A x \in RoomObjs : x # o => peers'[x] = peers[x]
        BY <2>3 DEF TypeInv, TypeOK
    <2> QED BY <2>4
<1>3. CASE UNCHANGED peers
    BY <1>3
<1>4. ASSUME NEW h \in Handlers, Proceed(h), ~Leave(h)  PROVE UNCHANGED peers
    BY <1>4 DEF Proceed, JoinKnown, JoinAnnounce, GetPeer, TouchPeer, SetVoiceStatus,
       Snapshot, Broadcast, LeaveCheckEmpty, LeaveReclaim, Route, Forward
<1>5. ASSUME NEW h \in Handlers, NEW m \in Requests, Receive(h, m)  PROVE UNCHANGED peers
    BY <1>5 DEF Receive, JoinGetRoom, GetRoom, CompactLookup
<1>6. CASE Scan /\ ~\E r \in RoomIDs : ScanRoom(r)
    BY <1>6, <1>3 DEF Scan, ScanBegin, ScanCheckEmpty, ScanReclaim, ScanNotify, ScanGetRoom
<1> QED BY <1>1, <1>2, <1>3, <1>4, <1>5, <1>6 DEF Next, Ignore, Expire, vars

\* Room.Join of a new peer grants it a lease.
LEMMA LeaseGranted ==
    ASSUME VIPInv, NEW h, NEW o, NEW p, NEW m, NEW v, Admits(h, o, p, m, v)
    PROVE  Directory!Grant(o, p)
<1>1. /\ o \in RoomObjs /\ p \in PeerIDs /\ v \in VIPs /\ v # None /\ m # None
      /\ peers[o][p] = None /\ peer'[m].vip = v
    BY NoneAssumption DEF Admits
<1>2. \A x \in RoomObjs, q \in PeerIDs :
        /\ peers[x][q] # m
        /\ peers'[x][q] = IF x = o /\ q = p THEN m ELSE peers[x][q]
        /\ peers[x][q] # None => peer'[peers[x][q]] = peer[peers[x][q]]
    BY DEF Admits, VIPInv, HeapInv, TypeInv, MembersOK, Allocated
<1>3. Leases[o][p] = None
    BY <1>1, LeaseSlots
<1>4. \A q \in PeerIDs : Leases[o][q] # v
    <2>1. \A q \in PeerIDs : peers[o][q] # None => peer[peers[o][q]].vip # v
        BY DEF Admits
    <2> QED BY <1>1, <2>1, LeaseSlots
<1>5. Leases' = [Leases EXCEPT ![o][p] = v]
    <2>1. \A x \in RoomObjs, q \in PeerIDs :
            Leases'[x][q] = IF x = o /\ q = p THEN v ELSE Leases[x][q]
        <3>1. \A x \in RoomObjs, q \in PeerIDs :
                Leases'[x][q] = IF peers'[x][q] = None THEN None ELSE peer'[peers'[x][q]].vip
            BY DEF Leases
        <3> QED BY <1>1, <1>2, <3>1, LeaseSlots
    <2>2. Leases' = [x \in RoomObjs |-> [q \in PeerIDs |-> Leases'[x][q]]]
        BY DEF Leases
    <2> QED BY <1>1, <2>1, <2>2, LeaseSlots
<1> QED BY <1>1, <1>3, <1>4, <1>5 DEF Directory!Grant

\* Room.Leave and Room.ScanTimeout end leases; every other step keeps them.
LEMMA LeaseRevoked ==
    ASSUME VIPInv, RegistryKept, NEW o \in RoomObjs,
           \A x \in RoomObjs : x # o => peers'[x] = peers[x]
    PROVE  \E S \in SUBSET PeerIDs : Directory!Revoke(o, S)
<1> DEFINE gone == {p \in PeerIDs : peers'[o][p] = None}
<1>1. PICK S \in SUBSET PeerIDs : \A p \in PeerIDs : p \in S <=> peers'[o][p] = None
    <2>1. gone \in SUBSET PeerIDs /\ \A p \in PeerIDs : p \in gone <=> peers'[o][p] = None
        OBVIOUS
    <2> QED BY <2>1
<1>2. \A x \in RoomObjs, q \in PeerIDs : peers'[x][q] # None =>
        /\ peers'[x][q] = peers[x][q]
        /\ peer'[peers[x][q]].vip = peer[peers[x][q]].vip
    BY DEF RegistryKept, VIPInv, HeapInv, TypeInv, MembersOK
<1>3. \A x \in RoomObjs, q \in PeerIDs :
        Leases'[x][q] = IF peers'[x][q] = None THEN None ELSE peer'[peers'[x][q]].vip
    BY DEF Leases
<1>4. \A x \in RoomObjs, q \in PeerIDs :
        Leases'[x][q] = IF x = o /\ q \in S THEN None ELSE Leases[x][q]
    BY <1>1, <1>2, <1>3, LeaseSlots
<1>5. Leases' = [x \in RoomObjs |-> [q \in PeerIDs |-> Leases'[x][q]]]
    BY DEF Leases
<1>6. Leases' = [Leases EXCEPT ![o] =
                    [p \in PeerIDs |-> IF p \in S THEN None ELSE Leases[o][p]]]
    BY <1>4, <1>5, LeaseSlots
<1> QED BY <1>6 DEF Directory!Revoke

LEMMA LeaseInit == Init => Directory!Init
    BY DEF Init, Directory!Init, Leases

LEMMA LeaseStep ==
    ASSUME VIPInv, [Next]_vars  PROVE [Directory!Next]_Leases
<1>0. HeapInv /\ TypeInv
    BY DEF VIPInv, HeapInv
<1>1. CASE \E h \in Handlers : JoinNew(h)
    <2>1. PICK h \in Handlers : JoinNew(h)
        BY <1>1
    <2>2. PICK o, p, m, v : Admits(h, o, p, m, v)
        BY <1>0, <2>1, JoinNewEffect
    <2>3. o \in RoomObjs /\ p \in PeerIDs
        BY <2>2 DEF Admits
    <2> QED BY <2>2, <2>3, LeaseGranted DEF Directory!Next
<1>2. CASE \A h \in Handlers : ~JoinNew(h)
    <2>1. RegistryKept
        BY <1>0, <1>2, RegistryStep
    <2>2. PICK o : \A x \in RoomObjs : x # o => peers'[x] = peers[x]
        BY <1>0, <1>2, OneRoomChanges
    <2>3. CASE o \in RoomObjs
        BY <2>1, <2>2, <2>3, LeaseRevoked DEF Directory!Next
    <2>4. CASE o \notin RoomObjs
        <3>1. \A x \in RoomObjs, q \in PeerIDs : peers'[x][q] # None =>
                peer'[peers'[x][q]].vip = peer[peers[x][q]].vip
            BY <1>0, <2>1, <2>2, <2>4 DEF RegistryKept, TypeInv, MembersOK
        <3>2. \A x \in RoomObjs, q \in PeerIDs : peers'[x][q] = peers[x][q]
            BY <2>2, <2>4
        <3> QED BY <3>1, <3>2 DEF Leases
    <2> QED BY <2>3, <2>4
<1> QED BY <1>1, <1>2

\* The registry implements the lease directory.
THEOREM DirectoryCorrect == Spec => DirectoryImplemented
<1>1. VIPInv /\ [Next]_vars => [Directory!Next]_Leases
    BY LeaseStep
<1> QED BY <1>1, LeaseInit, VIPCorrect, PTL DEF Spec, DirectoryImplemented, Directory!Spec

-----------------------------------------------------------------------------
(* What the members are told of each other *)

\* The local variables of a handler change by its own steps only.
LEMMA OwnStep ==
    ASSUME TypeInv, [Next]_vars, NEW g \in Handlers
    PROVE  hs'[g] = hs[g] \/ Proceed(g) \/ \E m \in Requests : Receive(g, m)
<1>0. hs \in [Handlers -> HandlerRec]
    BY DEF TypeInv, TypeOK
<1>1. ASSUME NEW h \in Handlers, h # g, Proceed(h)  PROVE hs'[g] = hs[g]
    <2>1. ASSUME Done(h) \/ \E pc : Goto(h, pc)  PROVE hs'[g] = hs[g]
        BY <1>0, <1>1, <2>1 DEF Done, Goto
    <2>2. CASE JoinKnown(h) \/ JoinNew(h)
        BY <1>0, <1>1, <2>2 DEF JoinKnown, JoinNew
    <2>3. CASE JoinAnnounce(h) \/ TouchPeer(h) \/ SetVoiceStatus(h) \/ Leave(h) \/ Broadcast(h)
        BY <2>1, <2>3 DEF JoinAnnounce, TouchPeer, SetVoiceStatus, Leave, Broadcast
    <2>4. CASE LeaveCheckEmpty(h) \/ LeaveReclaim(h) \/ Forward(h)
        BY <2>1, <2>4 DEF LeaveCheckEmpty, LeaveReclaim, Forward
    <2>5. CASE GetPeer(h)
        BY <1>0, <1>1, <2>1, <2>5 DEF GetPeer
    <2>6. CASE Snapshot(h)
        BY <1>0, <1>1, <2>6 DEF Snapshot
    <2>7. CASE Route(h)
        BY <1>0, <1>1, <2>1, <2>7 DEF Route
    <2> QED BY <1>1, <2>2, <2>3, <2>4, <2>5, <2>6, <2>7 DEF Proceed
<1>2. ASSUME NEW h \in Handlers, h # g, NEW m \in Requests, Receive(h, m)
      PROVE  hs'[g] = hs[g]
    BY <1>0, <1>2 DEF Receive, JoinGetRoom, GetRoom, CompactLookup
<1>3. CASE Scan
    BY <1>3 DEF Scan, ScanBegin, ScanRoom, ScanCheckEmpty, ScanReclaim, ScanGetRoom, ScanNotify
<1> QED BY <1>1, <1>2, <1>3 DEF Next, Ignore, Expire, vars

\* An object keeps its id, and its flag unless a PeerStatus sets it.
LEMMA PeerStep ==
    ASSUME HeapInv, [Next]_vars, NEW n, Allocated(n)
    PROVE  /\ Allocated(n)' /\ peer'[n].id = peer[n].id
           /\ \/ peer'[n].voice = peer[n].voice
              \/ \E h \in Handlers : SetVoiceStatus(h) /\ hs[h].peer = n
<1>0. TypeInv /\ peer \in [PeerObjs -> PeerRec \cup {None}] /\ n \in PeerObjs /\ peer[n] \in PeerRec
    BY DEF HeapInv, TypeInv, TypeOK, Allocated
<1>1. Allocated(n)' /\ peer'[n].id = peer[n].id
    <2>1. CASE \A h \in Handlers : ~JoinNew(h)
        BY <1>0, <2>1, RegistryStep DEF RegistryKept
    <2>2. CASE \E h \in Handlers : JoinNew(h)
        <3>1. PICK h \in Handlers : JoinNew(h)
            BY <2>2
        <3>2. PICK o, p, m, v : Admits(h, o, p, m, v)
            BY <3>1, JoinNewEffect
        <3>3. Allocated(n)'
            BY HeapNext, TypeNext, <1>0, <3>1, <3>2 DEF Admits, Allocated, PeerRec, HeapInv
        <3>4. peer'[n].id = peer[n].id
            BY <1>0, <3>2 DEF Admits
        <3> QED BY <3>3, <3>4
    <2> QED BY <2>1, <2>2
<1>2. ASSUME \A h \in Handlers : ~(SetVoiceStatus(h) /\ hs[h].peer = n)
      PROVE  peer'[n].voice = peer[n].voice
    <2>1. ASSUME NEW h \in Handlers, Proceed(h)  PROVE peer'[n].voice = peer[n].voice
        <3>1. CASE JoinKnown(h) \/ JoinNew(h) \/ TouchPeer(h)
            <4>1. PICK m, a, v : \/ peer' = [peer EXCEPT ![m].addr = a, ![m].stale = FALSE]
                                 \/ peer' = [peer EXCEPT ![m].vip = v]
                                 \/ peer' = [peer EXCEPT ![m].stale = FALSE]
                BY <3>1 DEF JoinKnown, JoinNew, TouchPeer
            <4> QED BY <1>0, <4>1 DEF PeerRec
        <3>2. CASE SetVoiceStatus(h)
            <4>1. PICK m, v : m = hs[h].peer /\ peer' = [peer EXCEPT ![m].voice = v]
                BY <3>2 DEF SetVoiceStatus
            <4> QED BY <1>0, <1>2, <3>2, <4>1 DEF PeerRec
        <3>3. CASE UNCHANGED peer
            BY <3>3
        <3> QED BY <2>1, <3>1, <3>2, <3>3 DEF Proceed, JoinAnnounce, GetPeer, Leave, Snapshot,
               Broadcast, LeaveCheckEmpty, LeaveReclaim, Route, Forward
    <2>2. ASSUME NEW h \in Handlers, NEW m \in Requests, Receive(h, m)
          PROVE  peer'[n].voice = peer[n].voice
        <3>1. CASE JoinGetRoom(h, m)
            <4>1. PICK p \in PeerObjs :
                    /\ peer[p] = None
                    /\ peer' = [peer EXCEPT ![p] = [id |-> m.id, addr |-> m.from, vip |-> 0,
                                                    voice |-> FALSE, stale |-> FALSE]]
                BY <3>1 DEF JoinGetRoom
            <4>2. p # n
                BY <1>0, <4>1, NoneAssumption
            <4> QED BY <1>0, <4>1, <4>2
        <3>2. CASE GetRoom(h, m) \/ CompactLookup(h, m)
            BY <3>2 DEF GetRoom, CompactLookup
        <3> QED BY <2>2, <3>1, <3>2 DEF Receive
    <2>3. ASSUME NEW m \in PeerObjs, Expire(m)  PROVE peer'[n].voice = peer[n].voice
        BY <1>0, <2>3 DEF Expire, PeerRec
    <2>4. CASE Scan
        BY <2>4 DEF Scan, ScanBegin, ScanRoom, ScanCheckEmpty, ScanReclaim, ScanGetRoom, ScanNotify
    <2> QED BY <2>1, <2>2, <2>3, <2>4 DEF Next, Ignore, vars
<1> QED BY <1>1, <1>2

\* A PeerStatus handler gets its pointer from the slot of the sender and keeps it.
LEMMA StatusPointer ==
    ASSUME TypeInv, [Next]_vars, NEW g \in Handlers,
           hs'[g].pc # "idle", hs'[g].req.kind = "PeerStatus", hs'[g].peer # None
    PROVE  /\ hs[g].pc # "idle" /\ hs'[g].req = hs[g].req
           /\ \/ hs'[g].peer = hs[g].peer
              \/ /\ hs[g].room \in RoomObjs /\ hs[g].req.id \in PeerIDs
                 /\ hs'[g].peer = peers[hs[g].room][hs[g].req.id]
<1>0. hs \in [Handlers -> HandlerRec]
    BY DEF TypeInv, TypeOK
<1>1. CASE hs'[g] = hs[g]
    BY <1>1
<1>2. ASSUME NEW m \in Requests, Receive(g, m)  PROVE FALSE
    <2>1. CASE JoinGetRoom(g, m)
        <3>1. PICK o, p : hs' = [hs EXCEPT ![g] = [Idle EXCEPT !.pc = "join", !.req = m,
                                                               !.room = o, !.peer = p]]
            BY <2>1 DEF JoinGetRoom
        <3>2. hs'[g].req = m /\ m.kind = "JoinRoom"
            BY <1>0, <2>1, <3>1 DEF JoinGetRoom, Idle
        <3> QED BY <3>2
    <2>2. CASE GetRoom(g, m) \/ CompactLookup(g, m)
        <3>1. PICK pc, o : hs' = [hs EXCEPT ![g] = [Idle EXCEPT !.pc = pc, !.req = m, !.room = o]]
            BY <2>2 DEF GetRoom, CompactLookup
        <3>2. hs'[g].peer = None
            BY <1>0, <3>1 DEF Idle
        <3> QED BY <3>2
    <2> QED BY <1>2, <2>1, <2>2 DEF Receive
<1>3. CASE Proceed(g)
    <2>1. ~Done(g)
        BY <1>0 DEF Done, Idle
    <2>2. CASE JoinKnown(g) \/ JoinNew(g)
        <3>1. hs[g].req.kind = "JoinRoom"
            <4>1. hs[g].pc = "join"
                BY <2>2 DEF JoinKnown, JoinNew, At
            <4> QED BY <4>1, TypeHandler DEF KindsAt, Req, At
        <3>2. hs'[g].req = hs[g].req
            BY <1>0, <2>2 DEF JoinKnown, JoinNew, HandlerRec
        <3> QED BY <3>1, <3>2
    <2>3. ASSUME NEW pc, Goto(g, pc), hs[g].pc # "idle"
          PROVE  hs[g].pc # "idle" /\ hs'[g].req = hs[g].req /\ hs'[g].peer = hs[g].peer
        BY <1>0, <2>3 DEF Goto, HandlerRec
    <2>4. CASE SetVoiceStatus(g) \/ Leave(g) \/ Broadcast(g) \/ LeaveCheckEmpty(g)
        BY <2>1, <2>3, <2>4 DEF SetVoiceStatus, Leave, Broadcast, LeaveCheckEmpty, At
    <2>5. CASE Snapshot(g)
        <3>1. PICK s : hs' = [hs EXCEPT ![g].snap = s, ![g].pc = "send"]
            BY <2>5 DEF Snapshot
        <3>2. hs[g].pc # "idle" /\ hs'[g].req = hs[g].req /\ hs'[g].peer = hs[g].peer
            BY <1>0, <2>5, <3>1 DEF Snapshot, At, HandlerRec
        <3> QED BY <3>2
    <2>6. CASE GetPeer(g)
        <3>1. /\ hs[g].pc # "idle" /\ hs[g].room \in RoomObjs /\ Req(g) \in Requests
              /\ Req(g).kind \in {"Ping", "PeerStatus", "PeerMetrics"}
            BY <2>6, TypeHandler DEF GetPeer, At, KindsAt
        <3>2. Req(g).id \in PeerIDs
            BY <3>1, RequestFields
        <3>3. PICK m, pc : /\ m = peers[hs[g].room][Req(g).id]
                           /\ hs' = [hs EXCEPT ![g].peer = m, ![g].pc = pc]
            BY <2>1, <2>6 DEF GetPeer
        <3>4. hs'[g].peer = m /\ hs'[g].req = hs[g].req
            BY <1>0, <3>3 DEF HandlerRec
        <3> QED BY <3>1, <3>2, <3>3, <3>4 DEF Req
    <2>7. CASE Route(g)
        <3>1. hs[g].req.kind # "PeerStatus"
            BY <2>7, TypeHandler DEF Route, At, KindsAt, Req
        <3>2. PICK m : hs' = [hs EXCEPT ![g].peer = m, ![g].pc = "forward"]
            BY <2>1, <2>7 DEF Route
        <3>3. hs'[g].req = hs[g].req
            BY <1>0, <3>2 DEF HandlerRec
        <3> QED BY <3>1, <3>3
    <2> QED BY <1>3, <2>1, <2>2, <2>4, <2>5, <2>6, <2>7
           DEF Proceed, JoinAnnounce, TouchPeer, LeaveReclaim, Forward
<1> QED BY <1>1, <1>2, <1>3, OwnStep

LEMMA StatusStep ==
    ASSUME HeapInv, StatusID, [Next]_vars  PROVE StatusID'
<1>0. TypeInv /\ MembersOK
    BY DEF HeapInv, TypeInv
<1> SUFFICES ASSUME NEW g \in Handlers, hs'[g].pc # "idle", hs'[g].req.kind = "PeerStatus",
                    hs'[g].peer # None
             PROVE  peer'[hs'[g].peer].id = hs'[g].req.id
    BY DEF StatusID, At, Is, Req
<1>1. PICK n : n = hs'[g].peer
    OBVIOUS
<1>2. hs[g].pc # "idle" /\ hs'[g].req = hs[g].req
    BY <1>0, StatusPointer
<1>3. Allocated(n) /\ peer[n].id = hs[g].req.id
    <2>1. CASE n = hs[g].peer
        BY <1>0, <1>1, <1>2, <2>1, TypeHandler DEF StatusID, At, Is, Req, PointersOK
    <2>2. CASE n # hs[g].peer
        BY <1>0, <1>1, <2>2, StatusPointer DEF MembersOK
    <2> QED BY <2>1, <2>2
<1> QED BY <1>1, <1>2, <1>3, PeerStep

\* Only Room.Join gives a Peer its VIP, and of an object that nobody else holds.
LEMMA VIPStays ==
    ASSUME HeapInv, [Next]_vars, NEW m, Allocated(m),
           NEW g \in Handlers, hs[g].pc # "join",
           \/ hs[g].peer = m
           \/ \E o \in RoomObjs, p \in PeerIDs : peers[o][p] = m
    PROVE  peer'[m].vip = peer[m].vip
<1>0. TypeInv /\ Fresh
    BY DEF HeapInv
<1>1. CASE \A h \in Handlers : ~JoinNew(h)
    BY <1>0, <1>1, RegistryStep DEF RegistryKept
<1>2. CASE \E h \in Handlers : JoinNew(h)
    <2>1. PICK h \in Handlers : JoinNew(h)
        BY <1>2
    <2>2. hs[h].pc = "join" /\ hs[h].peer # m
        BY <1>0, <2>1 DEF JoinNew, At, Fresh
    <2>3. PICK o, p, k, v : Admits(h, o, p, k, v)
        BY <2>1, JoinNewEffect
    <2> QED BY <2>2, <2>3 DEF Admits, Allocated
<1> QED BY <1>1, <1>2

\* A handler comes to "forward" by Route only, with a Peer that has the VIP.
LEMMA ForwardPointer ==
    ASSUME TypeInv, [Next]_vars, NEW g \in Handlers, hs'[g].pc = "forward"
    PROVE  /\ hs[g].pc # "join" /\ hs'[g].req = hs[g].req
           /\ \/ hs[g].pc = "forward" /\ hs'[g].peer = hs[g].peer
              \/ hs'[g].peer \in PeersByVIP(hs[g].room, Req(g).vip) /\ hs[g].room \in RoomObjs
<1>0. hs \in [Handlers -> HandlerRec]
    BY DEF TypeInv, TypeOK
<1>1. CASE hs'[g] = hs[g]
    BY <1>1
<1>2. ASSUME NEW m \in Requests, Receive(g, m)  PROVE FALSE
    <2>1. CASE JoinGetRoom(g, m)
        <3>1. PICK o, p : hs' = [hs EXCEPT ![g] = [Idle EXCEPT !.pc = "join", !.req = m,
                                                               !.room = o, !.peer = p]]
            BY <2>1 DEF JoinGetRoom
        <3>2. hs'[g].pc = "join"
            BY <1>0, <3>1 DEF Idle
        <3> QED BY <3>2
    <2>2. CASE GetRoom(g, m)
        <3>1. PICK pc, o : /\ hs' = [hs EXCEPT ![g] = [Idle EXCEPT !.pc = pc, !.req = m, !.room = o]]
                           /\ pc = AfterGet[m.kind] /\ m.kind \in DOMAIN AfterGet
            BY <2>2 DEF GetRoom
        <3>2. pc # "forward"
            BY <3>1 DEF AfterGet
        <3>3. hs'[g].pc = pc
            BY <1>0, <3>1 DEF Idle
        <3> QED BY <3>2, <3>3
    <2>3. CASE CompactLookup(g, m)
        <3>1. PICK o : hs' = [hs EXCEPT ![g] = [Idle EXCEPT !.pc = "route", !.req = m, !.room = o]]
            BY <2>3 DEF CompactLookup
        <3>2. hs'[g].pc = "route"
            BY <1>0, <3>1 DEF Idle
        <3> QED BY <3>2
    <2> QED BY <1>2, <2>1, <2>2, <2>3 DEF Receive
<1>3. CASE Proceed(g)
    <2>1. ~Done(g)
        BY <1>0 DEF Done, Idle
    <2>2. ASSUME NEW pc, Goto(g, pc)  PROVE pc = "forward"
        BY <1>0, <2>2 DEF Goto, HandlerRec
    <2>3. ~JoinKnown(g) /\ ~JoinNew(g)
        BY <1>0 DEF JoinKnown, JoinNew, HandlerRec
    <2>4. ~SetVoiceStatus(g) /\ ~Leave(g) /\ ~Broadcast(g) /\ ~LeaveCheckEmpty(g)
        BY <2>1, <2>2 DEF SetVoiceStatus, Leave, Broadcast, LeaveCheckEmpty
    <2>5. ~Snapshot(g) /\ ~GetPeer(g)
        BY <1>0, <2>1 DEF Snapshot, GetPeer, HandlerRec
    <2>6. CASE Route(g)
        <3>1. PICK m \in PeersByVIP(hs[g].room, Req(g).vip) :
                  hs' = [hs EXCEPT ![g].peer = m, ![g].pc = "forward"]
            BY <2>1, <2>6 DEF Route
        <3>2. hs'[g].peer = m /\ hs'[g].req = hs[g].req
            BY <1>0, <3>1 DEF HandlerRec
        <3>3. hs[g].pc = "route" /\ hs[g].room \in RoomObjs
            BY <2>6, TypeHandler DEF Route, At
        <3> QED BY <3>1, <3>2, <3>3
    <2> QED BY <1>3, <2>1, <2>3, <2>4, <2>5, <2>6
           DEF Proceed, JoinAnnounce, TouchPeer, LeaveReclaim, Forward
<1> QED BY <1>1, <1>2, <1>3, OwnStep

LEMMA RouteStep ==
    ASSUME HeapInv, RoutedByVIP, [Next]_vars  PROVE RoutedByVIP'
<1>0. TypeInv
    BY DEF HeapInv
<1> SUFFICES ASSUME NEW g \in Handlers, hs'[g].pc = "forward"
             PROVE  peer'[hs'[g].peer].vip = hs'[g].req.vip
    BY DEF RoutedByVIP, At, Req
<1>1. PICK m : m = hs'[g].peer
    OBVIOUS
<1>2. hs[g].pc # "join" /\ hs'[g].req = hs[g].req
    BY <1>0, ForwardPointer
<1>3. CASE hs[g].pc = "forward" /\ m = hs[g].peer
    <2>1. Allocated(m) /\ peer[m].vip = hs[g].req.vip
        BY <1>0, <1>3, TypeHandler DEF At, HoldsPeer, PointersOK, RoutedByVIP, Req
    <2> QED BY <1>1, <1>2, <1>3, <2>1, VIPStays
<1>4. CASE m \in PeersByVIP(hs[g].room, Req(g).vip) /\ hs[g].room \in RoomObjs
    <2>1. PICK p \in PeerIDs : peers[hs[g].room][p] = m /\ m # None
        BY <1>4 DEF PeersByVIP, Members
    <2>2. Allocated(m) /\ peer[m].vip = hs[g].req.vip
        BY <1>0, <1>4, TypeMembers DEF PeersByVIP, Req
    <2> QED BY <1>1, <1>2, <1>4, <2>1, <2>2, VIPStays
<1> QED BY <1>0, <1>1, <1>3, <1>4, ForwardPointer

LEMMA ToldGrows == [Next]_vars => told \subseteq told'
<1> SUFFICES ASSUME [Next]_vars  PROVE told \subseteq told'
    OBVIOUS
<1>1. ASSUME NEW h \in Handlers, Proceed(h)  PROVE told \subseteq told'
    BY <1>1 DEF Proceed, JoinKnown, JoinNew, JoinAnnounce, GetPeer, TouchPeer, SetVoiceStatus,
       Leave, Snapshot, Broadcast, LeaveCheckEmpty, LeaveReclaim, Route, Forward
<1>2. ASSUME NEW h \in Handlers, NEW m \in Requests, Receive(h, m)  PROVE told \subseteq told'
    BY <1>2 DEF Receive, JoinGetRoom, GetRoom, CompactLookup
<1>3. CASE Scan
    BY <1>3 DEF Scan, ScanBegin, ScanRoom, ScanCheckEmpty, ScanReclaim, ScanGetRoom, ScanNotify
<1> QED BY <1>1, <1>2, <1>3 DEF Next, Ignore, Expire, vars

\* A handler that is about to send takes its snapshot, sends, or waits.
LEMMA SenderStep ==
    ASSUME TypeInv, [Next]_vars, NEW g \in Handlers, hs[g].pc \in {"snapshot", "send"},
           Req(g).kind \in {"JoinRoom", "PeerStatus"}
    PROVE  \/ hs'[g] = hs[g]
           \/ /\ hs[g].pc = "snapshot" /\ hs'[g].pc = "send"
              /\ hs'[g].snap = Members(hs[g].room)
              /\ hs'[g].req = hs[g].req /\ hs'[g].peer = hs[g].peer
              /\ hs'[g].room = hs[g].room
           \/ JoinAnnounce(g)
           \/ Broadcast(g)
<1>0. hs \in [Handlers -> HandlerRec]
    BY DEF TypeInv, TypeOK
<1>1. ASSUME NEW m \in Requests, Receive(g, m)  PROVE FALSE
    BY <1>1 DEF Receive, JoinGetRoom, GetRoom, CompactLookup, At
<1>2. CASE Snapshot(g)
    <2>1. PICK s : s = Members(hs[g].room) /\ hs' = [hs EXCEPT ![g].snap = s, ![g].pc = "send"]
        BY <1>2 DEF Snapshot
    <2>2. /\ hs'[g].pc = "send" /\ hs'[g].snap = s
          /\ hs'[g].req = hs[g].req /\ hs'[g].peer = hs[g].peer /\ hs'[g].room = hs[g].room
        BY <1>0, <2>1 DEF HandlerRec
    <2> QED BY <1>2, <2>1, <2>2 DEF Snapshot, At
<1>3. ASSUME Proceed(g), ~Snapshot(g)  PROVE JoinAnnounce(g) \/ Broadcast(g)
    BY <1>3 DEF Proceed, JoinKnown, JoinNew, GetPeer, TouchPeer, SetVoiceStatus, Leave,
       LeaveCheckEmpty, LeaveReclaim, Route, Forward, At
<1> QED BY <1>1, <1>2, <1>3, OwnStep

\* Two members of one room have different ids.
LEMMA MembersApart ==
    ASSUME TypeInv, NEW o \in RoomObjs, NEW m \in Members(o), NEW n \in Members(o), m # n
    PROVE  peer[m].id # peer[n].id
<1>1. PICK p \in PeerIDs, q \in PeerIDs : m = peers[o][p] /\ n = peers[o][q] /\ m # None /\ n # None
    BY DEF Members
<1> QED BY <1>1 DEF TypeInv, MembersOK

\* What h says to m of n once it sends.
LEMMA JoinSends ==
    ASSUME HeapInv, NEW g \in Handlers, NEW m, NEW n, m # n, JoinTells(g, m, n), JoinAnnounce(g)
    PROVE  <<peer[m].id, n, peer[n].voice>> \in told'
<1>0. TypeInv /\ JoinerID
    BY DEF HeapInv
<1>1. /\ hs[g].pc = "send" /\ {m, n} \ {hs[g].peer} \subseteq hs[g].snap
      /\ m \in Members(hs[g].room) /\ n \in Members(hs[g].room) /\ hs[g].peer \in {m, n}
      /\ peer[hs[g].peer].id = Req(g).id /\ hs[g].room \in RoomObjs
    <2>1. hs[g].pc = "send" /\ hs[g].peer \in {m, n} /\ ~At(g, "idle") /\ Is(g, "JoinRoom")
        BY DEF JoinAnnounce, At, JoinTells
    <2> QED BY <1>0, <2>1, TypeHandler DEF JoinTells, Reaches, At, JoinerID
<1>2. peer[m].id # peer[n].id
    BY <1>0, <1>1, MembersApart
<1>3. CASE hs[g].peer = m
    <2>1. n \in hs[g].snap /\ Req(g).id = peer[m].id
        BY <1>1, <1>3
    <2> QED BY <2>1 DEF JoinAnnounce
<1>4. CASE hs[g].peer = n
    <2>1. m \in {x \in hs[g].snap : peer[x].id # Req(g).id}
        BY <1>1, <1>2, <1>4
    <2> QED BY <1>4, <2>1 DEF JoinAnnounce
<1> QED BY <1>1, <1>3, <1>4

LEMMA StatusSends ==
    ASSUME HeapInv, StatusID, NEW g \in Handlers, NEW m, NEW n, m # n, StatusTells(g, m, n),
           Broadcast(g)
    PROVE  <<peer[m].id, n, peer[n].voice>> \in told'
<1>0. TypeInv
    BY DEF HeapInv
<1>1. hs[g].pc = "send" /\ hs[g].peer = n /\ ~At(g, "idle") /\ Is(g, "PeerStatus")
    BY DEF Broadcast, At, StatusTells
<1>2. /\ m \in hs[g].snap /\ Req(g).voice = peer[n].voice /\ hs[g].room \in RoomObjs
      /\ m \in Members(hs[g].room) /\ n \in Members(hs[g].room)
    BY <1>0, <1>1, TypeHandler DEF StatusTells, Reaches, At
<1>3. n # None
    BY <1>2 DEF Members
<1>4. peer[n].id = Req(g).id
    BY <1>1, <1>3 DEF StatusID
<1>5. m \in {x \in hs[g].snap : peer[x].id # Req(g).id}
    BY <1>0, <1>2, <1>4, MembersApart
<1> QED BY <1>1, <1>2, <1>5 DEF Broadcast

\* As long as m and n stay members, what h is about to tell is told in the end.
LEMMA JoinTellsKept ==
    ASSUME HeapInv, [Next]_vars, NEW g \in Handlers, NEW m, NEW n, m # n,
           JoinTells(g, m, n), NEW o, o = hs[g].room, {m, n} \subseteq Members(o)'
    PROVE  JoinTells(g, m, n)' \/ <<peer[m].id, n, peer[n].voice>> \in told'
<1>0. TypeInv
    BY DEF HeapInv
<1>1. /\ hs[g].pc \in {"snapshot", "send"} /\ Req(g).kind = "JoinRoom" /\ hs[g].peer \in {m, n}
      /\ m \in Members(hs[g].room) /\ n \in Members(hs[g].room)
    BY DEF JoinTells, Reaches, At, Is
<1>2. CASE JoinAnnounce(g)
    BY <1>2, JoinSends
<1>3. CASE Broadcast(g)
    BY <1>1, <1>3 DEF Broadcast, Is
<1>4. CASE hs'[g] = hs[g]
    BY <1>4 DEF JoinTells, Reaches, At, Is, Req
<1>5. CASE /\ hs[g].pc = "snapshot" /\ hs'[g].pc = "send"
           /\ hs'[g].snap = Members(hs[g].room)
           /\ hs'[g].req = hs[g].req /\ hs'[g].peer = hs[g].peer /\ hs'[g].room = hs[g].room
    BY <1>1, <1>5 DEF JoinTells, Reaches, At, Is, Req
<1> QED BY <1>0, <1>1, <1>2, <1>3, <1>4, <1>5, SenderStep

LEMMA StatusTellsKept ==
    ASSUME HeapInv, StatusID, [Next]_vars, NEW g \in Handlers, NEW m, NEW n, m # n,
           StatusTells(g, m, n), NEW o, o = hs[g].room, {m, n} \subseteq Members(o)',
           peer'[n].voice = peer[n].voice
    PROVE  StatusTells(g, m, n)' \/ <<peer[m].id, n, peer[n].voice>> \in told'
<1>0. TypeInv
    BY DEF HeapInv
<1>1. /\ hs[g].pc \in {"snapshot", "send"} /\ Req(g).kind = "PeerStatus" /\ hs[g].peer = n
      /\ m \in Members(hs[g].room) /\ n \in Members(hs[g].room)
    BY DEF StatusTells, Reaches, At, Is
<1>2. CASE JoinAnnounce(g)
    BY <1>1, <1>2 DEF JoinAnnounce, Is
<1>3. CASE Broadcast(g)
    BY <1>3, StatusSends
<1>4. CASE hs'[g] = hs[g]
    BY <1>4 DEF StatusTells, Reaches, At, Is, Req
<1>5. CASE /\ hs[g].pc = "snapshot" /\ hs'[g].pc = "send"
           /\ hs'[g].snap = Members(hs[g].room)
           /\ hs'[g].req = hs[g].req /\ hs'[g].peer = hs[g].peer /\ hs'[g].room = hs[g].room
    BY <1>1, <1>5 DEF StatusTells, Reaches, At, Is, Req
<1> QED BY <1>0, <1>1, <1>2, <1>3, <1>4, <1>5, SenderStep

\* A join that admits one of m and n will list or announce them to each other.
LEMMA NewcomerTells ==
    ASSUME HeapInv, NEW h \in Handlers, NEW o, NEW p, NEW k, NEW v, Admits(h, o, p, k, v),
           NEW m, NEW n, k \in {m, n}, {m, n} \subseteq Members(o)'
    PROVE  JoinTells(h, m, n)'
<1>1. /\ hs[h] \in HandlerRec /\ o = hs[h].room /\ k = hs[h].peer
      /\ hs[h].req.kind = "JoinRoom" /\ hs'[h] = [hs[h] EXCEPT !.pc = "snapshot", !.vip = v]
    BY DEF Admits, HeapInv, TypeInv, TypeOK, Req
<1>2. /\ hs'[h].pc = "snapshot" /\ hs'[h].req.kind = "JoinRoom"
      /\ hs'[h].room = o /\ hs'[h].peer = k
    BY <1>1 DEF HandlerRec
<1> QED BY <1>2 DEF JoinTells, Reaches, At, Is, Req

\* Every member was one before, or is the newcomer of a join.
LEMMA MembersBefore ==
    ASSUME HeapInv, [Next]_vars, NEW o \in RoomObjs, NEW m, NEW n, m # n,
           m \in Members(o)', n \in Members(o)'
    PROVE  \/ m \in Members(o) /\ n \in Members(o)
           \/ \E h \in Handlers : JoinTells(h, m, n)'
<1>0. TypeInv
    BY DEF HeapInv
<1>1. CASE \A h \in Handlers : ~JoinNew(h)
    <2>1. RegistryKept
        BY <1>0, <1>1, RegistryStep
    <2> QED BY <2>1 DEF RegistryKept, Members
<1>2. CASE \E h \in Handlers : JoinNew(h)
    <2>1. PICK h \in Handlers : JoinNew(h)
        BY <1>2
    <2>2. PICK x, p, k, v : Admits(h, x, p, k, v)
        BY <2>1, JoinNewEffect
    <2>3. \A j : j \in Members(o)' => j \in Members(o) \/ (j = k /\ o = x)
        BY <2>2 DEF Admits, Members
    <2>4. CASE k \in {m, n} /\ o = x
        BY <2>2, <2>4, NewcomerTells
    <2>5. CASE ~(k \in {m, n} /\ o = x)
        BY <2>3, <2>5
    <2> QED BY <2>4, <2>5
<1> QED BY <1>1, <1>2

LEMMA TellerRoom ==
    ASSUME HeapInv, NEW o \in RoomObjs, NEW m \in Members(o), NEW n \in Members(o),
           NEW g \in Handlers, JoinTells(g, m, n) \/ StatusTells(g, m, n)
    PROVE  o = hs[g].room
    BY DEF HeapInv, OneHome, JoinTells, StatusTells, Members

LEMMA ToldInit == Init => IndInv
<1> SUFFICES ASSUME Init  PROVE IndInv
    OBVIOUS
<1>1. KnownOrWill /\ ToldOrWill
    BY DEF Init, KnownOrWill, ToldOrWill, Members
<1>2. StatusID /\ RoutedByVIP
    BY DEF Init, StatusID, RoutedByVIP, Idle, At
<1> QED BY <1>1, <1>2, VIPInit DEF IndInv

LEMMA ToldNext == IndInv /\ [Next]_vars => IndInv'
<1> SUFFICES ASSUME IndInv, [Next]_vars  PROVE IndInv'
    OBVIOUS
<1>0. HeapInv /\ TypeInv /\ StatusID /\ told \subseteq told'
    BY ToldGrows DEF IndInv, VIPInv, HeapInv
<1>1. VIPInv' /\ StatusID' /\ RoutedByVIP'
    BY <1>0, VIPNext, StatusStep, RouteStep DEF IndInv
<1>2. ASSUME NEW o \in RoomObjs, NEW m \in Members(o), NEW n \in Members(o)
      PROVE  /\ Allocated(m) /\ Allocated(n)
             /\ peer'[m].id = peer[m].id /\ peer[n].voice \in BOOLEAN
    <2>1. Allocated(m) /\ Allocated(n)
        BY <1>0, TypeMembers
    <2>2. peer'[m].id = peer[m].id
        BY <1>0, <2>1, PeerStep
    <2> QED BY <2>1, <2>2 DEF Allocated, PeerRec
<1>3. KnownOrWill'
    <2> SUFFICES ASSUME NEW o \in RoomObjs, NEW m \in Members(o)', NEW n \in Members(o)', m # n
                 PROVE  \/ \E v \in BOOLEAN : <<peer'[m].id, n, v>> \in told'
                        \/ \E h \in Handlers : JoinTells(h, m, n)'
        BY DEF KnownOrWill
    <2>1. CASE \E h \in Handlers : JoinTells(h, m, n)'
        BY <2>1
    <2>2. CASE m \in Members(o) /\ n \in Members(o)
        <3>1. CASE \E v \in BOOLEAN : <<peer[m].id, n, v>> \in told
            BY <1>0, <1>2, <2>2, <3>1
        <3>2. ASSUME NEW h \in Handlers, JoinTells(h, m, n)
              PROVE  JoinTells(h, m, n)' \/ <<peer[m].id, n, peer[n].voice>> \in told'
            BY <1>0, <2>2, <3>2, TellerRoom, JoinTellsKept
        <3> QED BY <1>2, <2>2, <3>1, <3>2 DEF IndInv, KnownOrWill
    <2> QED BY <1>0, <2>1, <2>2, MembersBefore
<1>4. ToldOrWill'
    <2> SUFFICES ASSUME NEW o \in RoomObjs, NEW m \in Members(o)', NEW n \in Members(o)', m # n
                 PROVE  \/ <<peer'[m].id, n, peer'[n].voice>> \in told'
                        \/ \E h \in Handlers : JoinTells(h, m, n)' \/ StatusTells(h, m, n)'
        BY DEF ToldOrWill
    <2>1. CASE \E h \in Handlers : JoinTells(h, m, n)'
        BY <2>1
    <2>2. CASE m \in Members(o) /\ n \in Members(o) /\ peer'[n].voice = peer[n].voice
        <3>1. CASE <<peer[m].id, n, peer[n].voice>> \in told
            BY <1>0, <1>2, <2>2, <3>1
        <3>2. ASSUME NEW h \in Handlers, JoinTells(h, m, n)
              PROVE  JoinTells(h, m, n)' \/ <<peer[m].id, n, peer[n].voice>> \in told'
            BY <1>0, <2>2, <3>2, TellerRoom, JoinTellsKept
        <3>3. ASSUME NEW h \in Handlers, StatusTells(h, m, n)
              PROVE  StatusTells(h, m, n)' \/ <<peer[m].id, n, peer[n].voice>> \in told'
            BY <1>0, <2>2, <3>3, TellerRoom, StatusTellsKept
        <3> QED BY <1>2, <2>2, <3>1, <3>2, <3>3 DEF IndInv, ToldOrWill
    <2>3. CASE m \in Members(o) /\ n \in Members(o) /\ peer'[n].voice # peer[n].voice
        <3>1. PICK h \in Handlers : SetVoiceStatus(h) /\ hs[h].peer = n
            BY <1>0, <1>2, <2>3, PeerStep
        <3>2. hs[h].room = o
            BY <1>0, <2>3, <3>1 DEF HeapInv, OneHome, Members
        <3>3. PICK v : v = Req(h).voice /\ peer' = [peer EXCEPT ![n].voice = v]
            BY <3>1 DEF SetVoiceStatus
        <3>4. peer'[n].voice = v
            BY <1>0, <1>2, <2>3, <3>3 DEF TypeInv, TypeOK, Allocated, PeerRec
        <3>5. /\ hs'[h].pc = "snapshot" /\ hs'[h].req = hs[h].req
              /\ hs'[h].peer = n /\ hs'[h].room = o /\ hs[h].req.kind = "PeerStatus"
            BY <1>0, <3>1, <3>2 DEF SetVoiceStatus, Goto, Is, Req, TypeInv, TypeOK, HandlerRec
        <3>6. StatusTells(h, m, n)'
            BY <3>3, <3>4, <3>5 DEF StatusTells, Reaches, At, Is, Req
        <3> QED BY <3>6
    <2> QED BY <1>0, <2>1, <2>2, <2>3, MembersBefore
<1> QED BY <1>1, <1>3, <1>4 DEF IndInv

\* The inductive invariant of the server.
THEOREM InvariantCorrect == Spec => []IndInv
    BY ToldInit, ToldNext, PTL DEF Spec

\* A frame whose target is still registered goes to the one holder of its VIP in
\* the room that was looked up: the pointer the relay keeps does not age in any
\* other way than by the removal of the member.
THEOREM RelayCorrect == Spec => []RelayToHolder
<1>1. IndInv => RelayToHolder
    <2> SUFFICES ASSUME IndInv, NEW h \in Handlers, NEW o \in RoomObjs,
                        At(h, "forward"), hs[h].peer \in Members(o)
                 PROVE  /\ o = hs[h].room
                        /\ \A m \in Members(o) : peer[m].vip = Req(h).vip <=> m = hs[h].peer
        BY DEF RelayToHolder
    <2>1. PICK p \in PeerIDs : peers[o][p] = hs[h].peer /\ hs[h].peer # None
        BY DEF Members
    <2>2. o = hs[h].room
        BY <2>1 DEF IndInv, VIPInv, HeapInv, OneHome
    <2>3. peer[hs[h].peer].vip = Req(h).vip
        BY DEF IndInv, RoutedByVIP
    <2>4. \A m \in Members(o) : peer[m].vip = peer[hs[h].peer].vip => m = hs[h].peer
        BY DEF IndInv, VIPInv, VIPUnique
    <2> QED BY <2>2, <2>3, <2>4
<1> QED BY <1>1, InvariantCorrect, PTL

\* Members whose joins are complete know of each other.
THEOREM DiscoveryCorrect == Spec => []MutualDiscovery
<1>1. IndInv => MutualDiscovery
    BY DEF IndInv, KnownOrWill, MutualDiscovery, JoinTells, Joining
<1> QED BY <1>1, InvariantCorrect, PTL

\* Every member was sent the voice flag the server holds for every other.
THEOREM VoiceCorrect == Spec => []VoiceTold
<1>1. IndInv => VoiceTold
    BY DEF IndInv, ToldOrWill, VoiceTold, JoinTells, StatusTells, Joining, Updating
<1> QED BY <1>1, InvariantCorrect, PTL
=============================================================================
