SPECIFICATION SandboxFairSpec
CONSTANTS
    u1 = u1
    p1 = p1
    p2 = p2
    m1 = m1
    m2 = m2
    Orders = {u1, p1, p2, m1, m2}
    PartnerOrders = {p1, p2}
    MarketRows = {m1, m2}
    Levels <- MeetingLevels
    None = None
    Prices = {1, 2}
    MaxQty = 2
    ChanCap = 2
    MaxRestarts = 1
    ManualKeys = {50}
INVARIANT MatchesWithinLimits
INVARIANT OverfillNeedsManualTrade
INVARIANT HouseWithinPartner
INVARIANT HouseRowsAreOneShot
PROPERTY CancelTakesEffect
CHECK_DEADLOCK FALSE
