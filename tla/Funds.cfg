SPECIFICATION Spec
CONSTANTS
    d1 = d1
    d2 = d2
    o1 = o1
    o2 = o2
    v1 = v1
    v2 = v2
    h1 = h1
    h2 = h2
    k1 = k1
    k2 = k2
    Debits = {d1, d2}
    Opens = {o1, o2}
    Reviews = {v1, v2}
    Hashes = {h1, h2}
    Keys = {k1, k2}
    DepositAmounts <- EitherSign
    MaxAmount = 2
    None = None
SYMMETRY Symmetry
INVARIANT DepositCreditedOnce
INVARIANT BalanceMatchesRows
INVARIANT OneEffectPerKey
INVARIANT OneAddress
INVARIANT DepositsCanBeCredited
CHECK_DEADLOCK FALSE
