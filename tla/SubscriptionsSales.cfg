SPECIFICATION FairSpec
CONSTANTS
    m0 = m0
    m1 = m1
    m2 = m2
    p1 = p1
    p2 = p2
    Billing = m0
    Buyers = {m1, m2}
    Plans = {p1}
    PurchaseIds <- TwoPurchases
    ManualIds <- NoManual
    Durations = {1, 2}
    Limits = {1, 2}
    Expiries = {}
    Confirms = {TRUE}
    Bannable = {m1}
    TTL = 1
    MaxClock = 2
    MaxRevision = 2
INVARIANT CountersMatch
PROPERTY LimitRespected
PROPERTY PurchaseEnds
CHECK_DEADLOCK FALSE
