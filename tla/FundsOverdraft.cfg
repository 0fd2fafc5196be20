SPECIFICATION Spec
CONSTANTS
    d1 = d1
    d2 = d2
    o1 = o1
    v1 = v1
    h1 = h1
    k1 = k1
    k2 = k2
    Debits = {d1, d2}
    Opens = {o1}
    Reviews = {v1}
    Hashes = {h1}
    Keys = {k1, k2}
    DepositAmounts = {1, 2}
    MaxAmount = 2
    None = None
INVARIANT NoOverdraft
CHECK_DEADLOCK FALSE
