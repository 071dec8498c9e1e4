SPECIFICATION FairSpec
CONSTANTS
    o1 = o1
    o2 = o2
    o3 = o3
    m1 = m1
    m2 = m2
    alipay = alipay
    NoChannel = NoChannel
    NoOrder = NoOrder
    Merchants = {m1}
    OrderIds = {o1, o2}
    MerchantOf <- OwnedByOne
    SubscriptionOrders = {o2}
    RefundIds = {1, 2}
    Channels = {alipay}
    Originals = {2}
    MinAmount = 1
    MaxAmount = 3
    FloatSettings <- UpOrDown
    TTLs = {1, 2}
    Retention = 1
    Skew = 1
    Lags = {0}
    Copies = {1}
    MaxInflight = 1
    MaxClock = 3
INVARIANT RefundsFollowOrder
PROPERTY PendingEnds
PROPERTY BookSpec
