---------------------------- MODULE MCRoomServer ----------------------------
(* Instances of RoomServer for TLC. *)
EXTENDS RoomServerInv, TLC

CONSTANTS p1, p2, p3, r1, r2, a1, b1, a2, a3

MCOwner == (a1 :> p1) @@ (b1 :> p1) @@ (a2 :> p2) @@ (a3 :> p3)
Owner == [a \in Addrs |-> MCOwner[a]]

Symmetry == Permutations(Handlers) \cup Permutations(PeerObjs) \cup Permutations(RoomObjs)

\* Two clients with one address each, and the rooms, may change places as well.
SwapClients ==
    [x \in {p1, p2, a1, a2} |->
        CASE x = p1 -> p2 [] x = p2 -> p1 [] x = a1 -> a2 [] x = a2 -> a1]
FullSymmetry == Symmetry \cup Permutations(RoomIDs) \cup {SwapClients}
=============================================================================
