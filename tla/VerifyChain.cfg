CONSTANTS
    anchor = anchor
    hub = hub
    cook = cook
    courier = courier
    read = read
    send = send
    Keys <- MCKeys
    Grants <- MCGrants
    Rosters <- MCRosters
    Chains <- MCChains
    Caps <- MCCaps
    Ticks <- MCTicks
SPECIFICATION Spec
INVARIANTS AcceptedIsAuthorized NarrowOnly
PROPERTIES AcceptsWellFormed
CHECK_DEADLOCK FALSE
