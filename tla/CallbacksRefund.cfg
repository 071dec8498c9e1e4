SPECIFICATION RetriesSpec
CONSTANTS
    Orders = {1}
    Generations = {1}
    MaxAttempts = 2
    Delay <- OneTick
    MaxDelay = 1
    Lease = 2
    Patience = 2
    ScanLimit = 1
    Keys = {k}
    NoRecord = NoRecord
INVARIANT RefundCancelsCallbacks
