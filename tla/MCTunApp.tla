----------------------------- MODULE MCTunApp -----------------------------
(* Instances of TunApp for TLC. *)
EXTENDS TunApp

\* The client's own VIP and another member's, and while its own entry is not
\* there both are others'. Either can be set on the adapter.
MCVIPs == {2, 3}

\* The broadcast of the subnet, the address that stands for host number 258, and
\* one that is not of the virtual network.
MCStrangers == {<<10, 66, 255, 255>>, <<10, 66, 1, 2>>, <<192, 168, 0, 2>>}

============================================================================
