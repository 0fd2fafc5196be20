SPECIFICATION Spec
CONSTANTS
    o1 = o1
    o2 = o2
    o3 = o3
    o4 = o4
    Orders = {o1, o2, o3, o4}
    None = None
    Prices = {1, 2, 3}
    MaxQty = 2
SYMMETRY Symmetry
PROPERTY Uncrossed
PROPERTY Refinement
CHECK_DEADLOCK FALSE
