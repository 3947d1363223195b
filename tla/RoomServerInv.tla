--------------------------- MODULE RoomServerInv ---------------------------
(***************************************************************************)
(* The inductive strengthening of RoomServer's invariants: what the local  *)
(* variables of the goroutines and the pointers between the heap objects   *)
(* satisfy at every step.  RoomServerProofs proves it inductive.           *)
(***************************************************************************)
EXTENDS RoomServer

\* The packets a handler at pc may be working on.
KindsAt(pc) ==
    CASE pc = "join" -> {"JoinRoom"}
      [] pc \in {"leave", "checkempty", "reclaim"} -> {"PeerLeave"}
      [] pc = "getpeer" -> {"Ping", "PeerStatus", "PeerMetrics"}
      [] pc = "update" -> {"Ping", "PeerStatus"}
      [] pc \in {"route", "forward"} -> {"Compact", "RelayData"}
      [] OTHER -> {"JoinRoom", "PeerLeave", "Chat", "PeerStatus", "PeerMetrics"}

\* A handler with the local variables s has a pointer in s.peer.
HoldsPeer(s) ==
    \/ s.pc \in {"join", "update", "forward"}
    \/ s.pc \in {"snapshot", "send"} /\ s.req.kind \in {"JoinRoom", "PeerStatus"}

\* What the local variables of a handler hold at each of its steps.
LocalsOK(s) ==
    s.pc # "idle" => /\ s.req \in Requests /\ s.req.kind \in KindsAt(s.pc)
                     /\ s.room \in RoomObjs
                     /\ HoldsPeer(s) => s.peer # None

\* A pointer to an object that exists.
Allocated(m) == m \in PeerObjs /\ peer[m] \in PeerRec

\* A member is listed under its own id and has a VIP.
MembersOK ==
    \A o \in RoomObjs, p \in PeerIDs : peers[o][p] # None =>
        /\ Allocated(peers[o][p])
        /\ peer[peers[o][p]].id = p
        /\ peer[peers[o][p]].vip \in VIPs

\* Every pointer a handler holds leads to an object that exists.
PointersOK(s) ==
    /\ s.peer # None => Allocated(s.peer)
    /\ \A m \in s.snap : Allocated(m)

\* scanLoop visits listed rooms only: nothing is unlisted while it sweeps.
ScanOK ==
    /\ scan.pc = "sweep" => \A r \in scan.todo : rooms[r] # None
    /\ scan.visit # None => scan.pc = "sweep" /\ scan.visit \in scan.todo

TypeInv ==
    /\ TypeOK /\ MembersOK /\ ScanOK
    /\ \A h \in Handlers : LocalsOK(hs[h]) /\ PointersOK(hs[h])

-----------------------------------------------------------------------------
\* Before Room.Join inserts it, the Peer a join built is known to that join
\* alone.
Fresh ==
    \A h \in Handlers : At(h, "join") =>
        /\ \A o \in RoomObjs, p \in PeerIDs : peers[o][p] # hs[h].peer
        /\ \A g \in Handlers : g # h => hs[g].peer # hs[h].peer

\* The Peer of a join carries the id of the request.
JoinerID ==
    \A h \in Handlers : ~At(h, "idle") /\ Is(h, "JoinRoom")
        => peer[hs[h].peer].id = Req(h).id

\* A Peer object is a member of one room object at most, and the pointers of a
\* handler lead into the room it holds.
OneHome ==
    /\ \A o, x \in RoomObjs, p, q \in PeerIDs :
          peers[o][p] # None /\ peers[o][p] = peers[x][q] => o = x
    /\ \A h \in Handlers, o \in RoomObjs, p \in PeerIDs :
          hs[h].peer # None /\ peers[o][p] = hs[h].peer => o = hs[h].room

HeapInv == TypeInv /\ Fresh /\ JoinerID /\ OneHome

VIPInv == HeapInv /\ VIPUnique /\ VIPDense

-----------------------------------------------------------------------------
\* handlePeerStatus works on the Peer of the client that sent the flag.
StatusID ==
    \A h \in Handlers : ~At(h, "idle") /\ Is(h, "PeerStatus") /\ hs[h].peer # None
        => peer[hs[h].peer].id = Req(h).id

\* The relay's target has the VIP of the frame, also if it was removed meanwhile.
RoutedByVIP == \A h \in Handlers : At(h, "forward") => peer[hs[h].peer].vip = Req(h).vip

\* The handler h is about to send to m what it has to say of n.
Reaches(h, m, n) ==
    /\ {m, n} \subseteq Members(hs[h].room)
    /\ At(h, "snapshot") \/ (At(h, "send") /\ {m, n} \ {hs[h].peer} \subseteq hs[h].snap)

\* h is the join of m, which lists n, or the join of n, which it announces to m.
JoinTells(h, m, n) ==
    ~At(h, "idle") /\ Is(h, "JoinRoom") /\ hs[h].peer \in {m, n} /\ Reaches(h, m, n)

\* h broadcasts the flag that n has.
StatusTells(h, m, n) ==
    /\ ~At(h, "idle") /\ Is(h, "PeerStatus") /\ hs[h].peer = n /\ Req(h).voice = peer[n].voice
    /\ Reaches(h, m, n)

\* Every member knows of every other, or a join is about to tell it.
KnownOrWill ==
    \A o \in RoomObjs : \A m, n \in Members(o) : m # n =>
        \/ \E v \in BOOLEAN : <<peer[m].id, n, v>> \in told
        \/ \E h \in Handlers : JoinTells(h, m, n)

\* Every member was sent the current flag of every other, or is about to be.
ToldOrWill ==
    \A o \in RoomObjs : \A m, n \in Members(o) : m # n =>
        \/ <<peer[m].id, n, peer[n].voice>> \in told
        \/ \E h \in Handlers : JoinTells(h, m, n) \/ StatusTells(h, m, n)

IndInv == VIPInv /\ StatusID /\ RoutedByVIP /\ KnownOrWill /\ ToldOrWill
=============================================================================
