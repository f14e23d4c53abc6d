------------------------------- MODULE MCQuotas -------------------------------
(* Two accepting tasks; one anchor whose budget two callers hold, and one     *)
(* anchor that has no budget.                                               *)
EXTENDS Quotas

CONSTANTS a1, a2, c1, c2

MCAnchorId == [c \in {c1, c2} |-> a1]
=============================================================================
