CONSTANTS
    a1 = a1
    a2 = a2
    c1 = c1
    c2 = c2
    Tasks = {"t1", "t2"}
    Capacity = 2
    RefillPerSec = 1
    Anchors = {a1, a2}
    Copies = {c1, c2}
    AnchorId <- MCAnchorId
    MaxPerEpoch = 2
    EpochLen = 2
    MaxTime = 3
    MaxSteps = 1
    MaxGrants = 4
SPECIFICATION QuotaSpec
CHECK_DEADLOCK FALSE
INVARIANTS QuotaTypeOK RateBounded MintsCapped
