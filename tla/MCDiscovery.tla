------------------------------ MODULE MCDiscovery ------------------------------
(* Three peers; two of them are seeded with the third, which is seeded with   *)
(* the first.  There is one address to move to.                              *)
EXTENDS Discovery

CONSTANTS pA, pB, pC, addrA, addrB, addrC, spare

MCPeers == {pA, pB, pC}
MCHome == [p \in MCPeers |-> CASE p = pA -> addrA [] p = pB -> addrB [] p = pC -> addrC]
MCSeed == [p \in MCPeers |-> IF p = pB THEN pA ELSE pB]
=============================================================================
