------------------------------ MODULE MCSettlement ------------------------------
(* Two hubs; the first owns the order.                                       *)
EXTENDS Settlement

CONSTANTS hubA, hubB

MCHubs == {hubA, hubB}
MCRank == [h \in MCHubs |-> IF h = hubA THEN 2 ELSE 1]
=============================================================================
