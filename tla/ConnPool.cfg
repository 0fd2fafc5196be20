SPECIFICATION FairSpec
CONSTANTS
    Settlements = {t1}
    Requests = {r1, r2}
    Polls = {p1}
    Buys = {b1}
    Sells = {s1}
    Deposits = {d1}
    Keys = {k1}
    MatchKeys = {}
    MaxConns = 2
    None = None
INVARIANT DeadlocksAreKnown
INVARIANT PoolClosedLast
PROPERTY CallsEndUnlessExhausted
PROPERTY StopsUnlessExhausted
CHECK_DEADLOCK FALSE
