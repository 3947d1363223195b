SPECIFICATION Spec
CONSTANTS
    p1 = p1  p2 = p2  a1 = a1  a2 = a2  a3 = a3
    Peers = {p1}
    Addrs = {a1,a2,a3}
    Infos <- Dual
    Handlers = {h1,h2}
    Chans = {c1,c2}
    Kinds = {"RoomStatus", "PeerAddress", "PeerLeave", "Punch", "Send", "Disconnect"}
    Late = FALSE
    None = None
SYMMETRY DualSymmetry
INVARIANTS TypeOK ChannelsOwned NoStalePending ClientInv
PROPERTIES NoDowngrade LinksImplemented
