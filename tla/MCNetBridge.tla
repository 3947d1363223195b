---------------------------- MODULE MCNetBridge ----------------------------
(* Instances of NetBridge for TLC. *)
EXTENDS NetBridge, TLC

CONSTANTS p1, p2, p3, a1, b1, a2, a3

MCOwner == (a1 :> p1) @@ (b1 :> p1) @@ (a2 :> p2) @@ (a3 :> p3)
Owner == [a \in Addrs |-> MCOwner[a]]

\* The two sockets of p1 may change places.
Symmetry == Permutations(Handlers) \cup Permutations(PeerObjs) \cup Permutations(RoomObjs)
            \cup Permutations({a1, b1})
=============================================================================
