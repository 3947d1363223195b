SPECIFICATION Spec
CONSTANTS
    VIPs <- MCVIPs
    Strangers <- MCStrangers
    MaxJoins = 2
INVARIANTS AdapterFollowsRoom
CHECK_DEADLOCK FALSE
