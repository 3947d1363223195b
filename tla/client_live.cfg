SPECIFICATION FairSpec
CONSTANTS
    p1 = p1  p2 = p2  a1 = a1  a2 = a2  a3 = a3
    Peers = {p1,p2}
    Addrs = {a1}
    Infos <- Shared
    Handlers = {h1}
    Chans = {c1,c2,c3}
    Kinds = {"RoomStatus", "PeerAddress"}
    Late = FALSE
    None = None
INVARIANTS ClientInv
PROPERTIES PunchEnds PeerGetsChannel
