SPECIFICATION ListingSpec
CONSTANTS
    Rows = {1, 2, 3, 4}
    DefaultLimit = 1
    MaxLimit = 2
    Asked = {0, 2, 3}
    Windows <- TwoWindows
    MaxNow = 2
INVARIANT WalkIsComplete
INVARIANT RepeatsNeedInsertions
INVARIANT TotalCoversPage
CHECK_DEADLOCK FALSE
