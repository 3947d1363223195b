SPECIFICATION FairSpec
CONSTANTS
    MaxConns = 2
    MaxBeats = 1
    PongCap = 1
    Overlap = FALSE

PROPERTIES HandshakeGenuine
CHECK_DEADLOCK FALSE
