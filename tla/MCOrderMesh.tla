------------------------------ MODULE MCOrderMesh ------------------------------
(* Three hubs; the first owns the order, the second is its replica.         *)
EXTENDS OrderMesh

CONSTANTS hubA, hubB, hubC

MCHubs == {hubA, hubB, hubC}
MCRank == [h \in MCHubs |-> CASE h = hubA -> 3 [] h = hubB -> 2 [] h = hubC -> 1]
=============================================================================
