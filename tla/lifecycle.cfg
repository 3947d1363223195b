SPECIFICATION FairSpec
CONSTANTS
    MaxConns = 2
    MaxBeats = 1
    PongCap = 1
    Overlap = FALSE
INVARIANTS SocketsOwned Served LifecycleInv
PROPERTIES OperationsReturn OldReadLoopsEnd DispatchReturns
CHECK_DEADLOCK FALSE
