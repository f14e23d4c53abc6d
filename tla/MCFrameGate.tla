------------------------------ MODULE MCFrameGate ------------------------------
(***************************************************************************)
(* Frames for TLC: a good intent, the same intent damaged on the way, an   *)
(* intent of the same courier that expires later, a red-line intent and a  *)
(* breach alarm under the nonce of that one, and an alarm whose chain does *)
(* not hold.                                                               *)
(***************************************************************************)
EXTENDS FrameGate

CONSTANTS courier, anchor, n1, n2

MCIds == {courier}
MCNonces == {n1, n2}
MCAnchors == {anchor}

Good == [kind |-> "intent", nonce |-> n1, ids |-> {courier}, expiry |-> 1,
         root |-> anchor, sound |-> TRUE, classical |-> TRUE, pq |-> TRUE]
Damaged == [Good EXCEPT !.classical = FALSE]
Later == [Good EXCEPT !.nonce = n2, !.expiry = 2]
RedLine == [Later EXCEPT !.kind = "redline"]
Alarm == [Later EXCEPT !.kind = "breach"]
FalseAlarm == [Alarm EXCEPT !.sound = FALSE]

MCFrames == {Good, Damaged, Later, RedLine, Alarm}
AlarmFrames == {Good, FalseAlarm, Alarm}
=============================================================================
