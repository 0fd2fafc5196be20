SPECIFICATION Spec
CONSTANTS
    o1 = o1
    o2 = o2
    o3 = o3
    Orders = {o1, o2, o3}
    None = None
    Prices = {1}
    MaxQty = 2
    ChanCap = 2
    MaxRestarts = 2
SYMMETRY Symmetry
INVARIANT TypeOK
INVARIANT IInv
INVARIANT NoOverfill
INVARIANT EngineWithinOrder
INVARIANT FillsMatchTrades
INVARIANT StatusMatchesFill
INVARIANT ReserveMatchesOrder
INVARIANT KeysAreFresh
PROPERTY OrderLifecycle
CHECK_DEADLOCK FALSE
