------------------------------ MODULE MCHubReload ------------------------------
(* Four texts for the policy file: one that changes the listeners, one that  *)
(* narrows the red-line scope, one that widens it, and the empty file.       *)
EXTENDS HubReload

CONSTANTS auth, money, b1, b2

MCTexts ==
    {[allow |-> {money}, binds |-> {b2}],
     [allow |-> {}, binds |-> {b1, b2}],
     [allow |-> {auth, money}, binds |-> {b2}],
     DenyAll}
=============================================================================
