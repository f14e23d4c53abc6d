---------------------------- MODULE MCStoreForward ----------------------------
(* Two bundles for two destinations, one of which expires first; and two    *)
(* that carry the same frame, hence the same nonce, to two destinations.    *)
EXTENDS StoreForward

CONSTANTS d1, d2, n1, n2

Short == [dest |-> d1, nonce |-> n1, expires |-> 0]
Other == [dest |-> d2, nonce |-> n2, expires |-> 1]
OtherSame == [dest |-> d2, nonce |-> n1, expires |-> 1]

Pair == {Short, Other}
Shared == {Short, OtherSame}
=============================================================================
