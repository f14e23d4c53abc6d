CONSTANTS
    pA = pA
    pB = pB
    pC = pC
    addrA = addrA
    addrB = addrB
    addrC = addrC
    spare = spare
    None = None
    Peers <- MCPeers
    Addrs = {addrA, addrB, addrC, spare}
    Home <- MCHome
    Seed <- MCSeed
    Revocable = {pC}
    Operators = {pA}
    MaxFaults = 1
SPECIFICATION GossipSpec
INVARIANTS GossipTypeOK RevokedStaysOut KnowsItself
PROPERTIES RootsConverge
