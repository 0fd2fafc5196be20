SPECIFICATION ViewSpec
CONSTANTS
    o1 = o1
    o2 = o2
    o3 = o3
    Orders = {o1, o2, o3}
    None = None
    Prices = {1, 2}
    MaxQty = 2
    MaxRecent = 1
SYMMETRY Symmetry
INVARIANT InOrderViewShowsBook
INVARIANT RecentTradesComplete
CHECK_DEADLOCK FALSE
