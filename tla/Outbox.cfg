SPECIFICATION FairSpec
CONSTANTS
    w1 = w1  w2 = w2
    None = None
    Workers = {w1, w2}
    MaxRows = 1
    Batch = 1
    MaxDeliveryAttempts = 3
    LeaseThreshold = 1
    BaseBackoff = 1
    MaxBackoff = 2
    SendBound = 1
    Prompt = FALSE
    MaxFaults = 2
INVARIANTS TypeOK FailedWasTried
PROPERTIES FinishedStays SettleOnceLeasesHold
