SPECIFICATION Spec
CONSTANTS
    o1 = o1
    o2 = o2
    Orders = {o1, o2}
    None = None
    Prices = {1}
    MaxQty = 2
    ChanCap = 2
    MaxRestarts = 0
INVARIANT NoCancelledOrderRests
CHECK_DEADLOCK FALSE
