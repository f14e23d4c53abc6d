CONSTANTS
    hubA = hubA
    hubB = hubB
    Hubs <- MCHubs
    HrwRank <- MCRank
    Carriers = {TRUE}
    MaxCrashes = 1
    MaxSent = 3
    MaxRecords = 2
    MaxWindow = 3
SPECIFICATION SettleSpec
INVARIANTS NoFalseQuarantine SplitIsQuarantined
PROPERTIES VerdictNeverFlips
CHECK_DEADLOCK FALSE
