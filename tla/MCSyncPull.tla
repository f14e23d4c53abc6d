------------------------------ MODULE MCSyncPull ------------------------------
(***************************************************************************)
(* One node writes; a second pulls from it; a third pulls from both, so it *)
(* gets the same events by two ways.  Pair is two nodes that pull from one *)
(* another.                                                                *)
(***************************************************************************)
EXTENDS SyncPull

CONSTANTS n1, n2, n3, alice

Diamond == {<<n2, n1>>, <<n3, n1>>, <<n3, n2>>}
Pair == {<<n1, n2>>, <<n2, n1>>}
MCAuthor == [a \in Actors |-> n1]
=============================================================================
