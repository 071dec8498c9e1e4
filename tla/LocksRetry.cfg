SPECIFICATION LocksSpec
CONSTANTS
    Txs = {t1, t2, t3}
    None = None
    Offered <- AllRequests
    BuyerFirst = TRUE
    MaxRuns = 3
INVARIANT RetriedAfterDeadlock
