CONSTANTS
    hubA = hubA
    hubB = hubB
    hubC = hubC
    Hubs <- MCHubs
    HrwRank <- MCRank
    Carriers = {TRUE, FALSE}
    MaxCrashes = 1
    MaxSent = 5
SPECIFICATION FairSpec
INVARIANTS OwnerDecides InStep
PROPERTIES FollowsOwner IsRegister
CHECK_DEADLOCK FALSE
