SPECIFICATION Spec
CONSTANTS
    Prices = {1}
    Snapshots <- MCSnapshots
    NoSnapshot = NoSnapshot
    Width = 7
    Second = 1
    MaxAttempts = 7
    ChanCap = 1
    MaxOrders = 3
INVARIANT BackoffIsCapped
INVARIANT NothingForgotten
INVARIANT OneOrderPerLevel
INVARIANT MirrorIsBook
PROPERTY WorkersStop
CHECK_DEADLOCK FALSE
