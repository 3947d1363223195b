SPECIFICATION Spec
CONSTANTS
    p1 = p1  p2 = p2  a1 = a1  a2 = a2  a3 = a3
    Peers = {p1}
    Addrs = {a1}
    Infos <- Single
    Handlers = {h1}
    Chans = {c1,c2}
    Kinds = {"PeerAddress"}
    Late = FALSE
    None = None
INVARIANT LeftRoomQuiet
