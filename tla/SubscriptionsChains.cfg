SPECIFICATION Spec
CONSTANTS
    m0 = m0
    m1 = m1
    p1 = p1
    p2 = p2
    Buyers = {m1}
    Billing = m0
    Plans = {p1, p2}
    PurchaseIds <- ThreePurchases
    ManualIds <- OneManual
    Durations = {2}
    Limits = {0}
    Expiries = {2}
    Confirms = {TRUE}
    Bannable = {m0}
    TTL = 2
    MaxClock = 3
    MaxRevision = 1
INVARIANT BillsAgree
INVARIANT EntitlementFollowsGrants
INVARIANT NoPaidTimeForgotten
PROPERTY PaymentBuysItsDays
PROPERTY RefundNeverRevives
PROPERTY PurchaseAsReviewed
SYMMETRY SymmetricPlans
CHECK_DEADLOCK FALSE
