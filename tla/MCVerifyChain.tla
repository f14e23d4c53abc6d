----------------------------- MODULE MCVerifyChain -----------------------------
(***************************************************************************)
(* Chains of up to three links over four keys, one of them an anchor.  A   *)
(* link is sound, or wrong in exactly one way, so every refusal of the     *)
(* code is reached at every position of the chain.                         *)
(***************************************************************************)
EXTENDS VerifyChain

CONSTANTS anchor, hub, cook, courier, read, send

MCKeys == {anchor, hub, cook, courier}
MCGrants == {read, send}

Link(from, to, scope) ==
    [issued_by |-> from, subject |-> to, scope |-> scope, effect |-> scope,
     expiry |-> 2, signed |-> TRUE]

Sound == {Link(from, to, scope) : from \in {anchor, hub}, to \in {hub, courier},
                                  scope \in {{read}, {read, send}}}

Faulty == {[Link(hub, courier, {read}) EXCEPT !.expiry = 1],
           [Link(hub, courier, {read}) EXCEPT !.signed = FALSE],
           Link(anchor, cook, {read, send}),
           [Link(anchor, hub, {read}) EXCEPT !.effect = {read, send}],
           [Link(anchor, courier, {read, send}) EXCEPT !.effect = {read}]}

MCChains == UNION {[1 .. n -> Sound \cup Faulty] : n \in 0 .. 3}

MCCaps == [subject : {courier}, scope : {{}, {read}, {read, send}}, expiry : {1, 2}]

MCRosters == {{}, {anchor}}
MCTicks == {1}
=============================================================================
