--------------------------- MODULE MCPeerChannels ---------------------------
(* The instances of PeerChannels that TLC checks.                          *)
EXTENDS PeerChannels, TLC

CONSTANTS p1, p2, a1, a2, a3

Info(p, v, S) == [id |-> p, vip |-> v, addrs |-> S]

\* one peer with one endpoint
Single == {Info(p1, 3, {a1})}
\* a peer and one that still lists its endpoint
Shared == {Info(p1, 3, {a1}), Info(p2, 4, {a1})}
\* a dual-stack peer; an endpoint outside Dual is nobody's
Dual == {Info(p1, 3, {a1, a2})}

DualSymmetry == Permutations(Handlers) \cup Permutations(Chans) \cup Permutations({a1, a2})
=============================================================================
