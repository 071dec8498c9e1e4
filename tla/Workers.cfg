SPECIFICATION WorkersSpec
CONSTANTS
    Orders = {1, 2}
    Generations = {1, 2, 3}
    MaxAttempts = 2
    Delay <- OneTick
    MaxDelay = 1
    Lease = 2
    Patience = 2
    ScanLimit = 1
    Keys = {k}
    NoRecord = NoRecord
    Mails = {a, b}
    Workers = {w1, w2}
    MailAttempts = 4
    BatchLimit = 2
    Txs = {t1, t2}
    None = None
    Offered <- AllRequests
    BuyerFirst = TRUE
    MaxRuns = 2
INVARIANT OneAttemptPerEvent
INVARIANT OneReplayPerKey
INVARIANT DeletedPlanHasNoPending
 
PROPERTY SuccessIsFinal
PROPERTY NewestEnds
PROPERTY SentIsFinal
PROPERTY MailEnds
PROPERTY ImplementsLife
CHECK_DEADLOCK FALSE
