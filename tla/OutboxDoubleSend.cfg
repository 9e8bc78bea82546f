SPECIFICATION Spec
CONSTANTS
    w1 = w1  w2 = w2
    None = None
    Workers = {w1, w2}
    MaxRows = 3
    Batch = 3
    MaxDeliveryAttempts = 2
    LeaseThreshold = 1
    BaseBackoff = 1
    MaxBackoff = 2
    SendBound = 1
    Prompt = TRUE
    MaxFaults = 0
SYMMETRY MCSymmetry
INVARIANTS NoDoubleSend
