SPECIFICATION FairSpec
CONSTANTS
    VIPs <- MCVIPs
    Strangers <- MCStrangers
    MaxJoins = 2
INVARIANTS TypeOK OneReader JoinBridged BridgeHasAdapter  TunInv
PROPERTIES LeaveReturns
CHECK_DEADLOCK FALSE
