CONSTANTS
    d1 = d1
    d2 = d2
    n1 = n1
    n2 = n2
    Bundles <- Pair
    MaxEnqueued = 3
    MaxPulls = 1
    MaxDrops = 1
    MaxRestarts = 1
    MaxClock = 1
SPECIFICATION FairSpec
INVARIANTS RightDoor ReplayedUntilAcked
PROPERTIES KeepsPromise Settled
CHECK_DEADLOCK FALSE
