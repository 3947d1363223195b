SPECIFICATION FairSpec
CONSTANTS
    p1 = p1  p2 = p2  p3 = p3  r1 = r1  r2 = r2
    a1 = a1  b1 = b1  a2 = a2  a3 = a3
    PeerIDs = {p1,p2}
    RoomIDs = {r1}
    Addrs = {a1,a2}
    AddrOwner <- Owner
    RoomObjs = {o1,o2}
    PeerObjs = {m1,m2}
    Handlers = {h1}
    Kinds = {"JoinRoom", "PeerLeave", "PeerStatus", "Ping", "Tick"}
    VIPStart = 2
    VIPEnd = 4
    None = None
PROPERTIES HandlersReturn StaleRemoved EmptyReclaimed
