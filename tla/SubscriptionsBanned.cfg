SPECIFICATION Spec
CONSTANTS
    m0 = m0
    m1 = m1
    m2 = m2
    p1 = p1
    p2 = p2
    Billing = m0
    Buyers = {m1}
    Plans = {p1}
    PurchaseIds <- TwoPurchases
    ManualIds <- NoManual
    Durations = {1}
    Limits = {0}
    Expiries = {}
    Confirms = {TRUE}
    Bannable = {m1}
    TTL = 1
    MaxClock = 3
    MaxRevision = 1
INVARIANT BannedBuyerHasNoPending
CHECK_DEADLOCK FALSE
