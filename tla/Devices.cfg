SPECIFICATION FairSpec
CONSTANTS
    Merchants = {m1, m2}
    DeviceIds = {1, 2}
    BindingIds = {1, 2}
    Scanners = {w1, w2}
    Threshold = 1
    CodeLife = 1
    ScanLimit = 2
    MaxEpisode = 1
    NoMerchant = NoMerchant
    NoDevice = 0
INVARIANT EveryDeviceFromItsCode
PROPERTY AlarmOncePerSilence
PROPERTY SilenceAlarmed
CHECK_DEADLOCK FALSE
