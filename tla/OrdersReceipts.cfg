SPECIFICATION PartSpec
CONSTANTS
    o1 = o1
    o2 = o2
    o3 = o3
    m1 = m1
    m2 = m2
    alipay = alipay
    NoChannel = NoChannel
    NoOrder = NoOrder
    Merchants = {m1, m2}
    OrderIds = {o1, o2, o3}
    MerchantOf <- OwnedByTwo
    SubscriptionOrders = {}
    RefundIds = {}
    Channels = {alipay}
    Originals = {2, 3}
    MinAmount = 1
    MaxAmount = 3
    FloatSettings <- UpOne
    TTLs = {2}
    Retention = 1
    Skew = 1
    Lags = {0, 1}
    Copies = {1, 2}
    MaxInflight = 1
    MaxClock = 5
INVARIANT ReceiptAttribution
INVARIANT OneReceiptPerSettlement
INVARIANT AmountHeldOnce
INVARIANT HoldCoversExposure
INVARIANT BannedHasNoPending
PROPERTY NoPayableReceiptUnmatched
SYMMETRY SymmetricOwned
