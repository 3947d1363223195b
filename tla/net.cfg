SPECIFICATION NetSpec
CONSTANTS
    p1 = p1  p2 = p2  p3 = p3
    a1 = a1  b1 = b1  a2 = a2  a3 = a3
    PeerIDs = {p1,p2}
    RoomIDs = {r1}
    Lobby = r1
    Talkers = {p1}
    Leavers = {p2}
    Addrs = {a1,b1,a2}
    AddrOwner <- Owner
    RoomObjs = {o1,o2}
    PeerObjs = {m1,m2,m3}
    Handlers = {h1,h2}
    Kinds = {"JoinRoom", "PeerLeave", "PeerStatus"}
    VIPStart = 2
    VIPEnd = 4
    None = None
SYMMETRY Symmetry
INVARIANTS NetInv NetTypeOK OneKnowsOther VIPAgreed MutualDiscovery VoiceTold
CHECK_DEADLOCK FALSE
