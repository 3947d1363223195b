----------------------------- MODULE PeerLinks -----------------------------
(***************************************************************************)
(* What the channels of a client promise: a peer is reached over one link  *)
(* at most, which leads to an endpoint and a virtual IP that the server    *)
(* gave for that very peer; a direct link gives way to another direct link *)
(* or is lost, never to a relayed one; and no other link is open.  Which   *)
(* goroutine makes a link, and how punches, packets and leaves race for    *)
(* it, is left to the implementation.                                      *)
(***************************************************************************)
CONSTANTS
    Peers,    \* the other clients
    Routes,   \* Peers -> the links that lead to the peer
    None      \* no link

VARIABLES
    link,     \* Peers -> the link packets take, or None
    open      \* the links that are open, with their ping goroutines

vars == <<link, open>>

Init == link = [p \in Peers |-> None] /\ open = {}

Direct(p) == link[p] # None /\ link[p].type = "p2p"

\* A link to p, the first or in the place of the one there was.
Establish(p) ==
    \E l \in Routes[p] :
        /\ Direct(p) => l.type = "p2p"
        /\ link' = [link EXCEPT ![p] = l]

\* The links to some peers are closed.
Lose(S) == link' = [p \in Peers |-> IF p \in S THEN None ELSE link[p]]

Next ==
    /\ \/ \E p \in Peers : Establish(p)
       \/ \E S \in SUBSET Peers : Lose(S)
    /\ open' = {link'[p] : p \in Peers} \ {None}

Spec == Init /\ [][Next]_vars
=============================================================================
