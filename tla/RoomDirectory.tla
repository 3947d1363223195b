--------------------------- MODULE RoomDirectory ---------------------------
(***************************************************************************)
(* What a NetBridge room promises its members: each holds a lease on a     *)
(* virtual IP that nobody else in the room holds and that does not change  *)
(* until the lease ends.  How addresses are chosen, how joins interleave   *)
(* and who notices that a member has gone is left to the implementation.   *)
(***************************************************************************)
CONSTANTS
    Rooms,    \* the rooms
    PeerIDs,  \* the clients
    VIPs,     \* the host numbers
    None      \* no lease

VARIABLE lease   \* Rooms -> PeerIDs -> VIPs or None

Init == lease = [o \in Rooms |-> [p \in PeerIDs |-> None]]

\* A client without a lease gets a number that is free in the room.
Grant(o, p) ==
    /\ lease[o][p] = None
    /\ \E v \in VIPs :
          /\ \A q \in PeerIDs : lease[o][q] # v
          /\ lease' = [lease EXCEPT ![o][p] = v]

\* The leases of some members of a room end.
Revoke(o, S) ==
    lease' = [lease EXCEPT ![o] = [p \in PeerIDs |-> IF p \in S THEN None ELSE @[p]]]

Next ==
    \E o \in Rooms :
        \/ \E p \in PeerIDs : Grant(o, p)
        \/ \E S \in SUBSET PeerIDs : Revoke(o, S)

Spec == Init /\ [][Next]_lease
=============================================================================
