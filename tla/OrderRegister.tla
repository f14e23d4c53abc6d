----------------------------- MODULE OrderRegister -----------------------------
(***************************************************************************)
(* What the hub ring promises of an order, without frames, gates and        *)
(* carriers: a register that one writer moves along the Law, and that the   *)
(* other hubs copy.  They may skip nothing that the Law does not skip, and   *)
(* take up nothing that the writer has not held; a copy may lag for ever.   *)
(* When the writer is gone each hub goes its own way, but by the Law.       *)
(***************************************************************************)

CONSTANTS
    Hubs, Writer,
    Law,          \* per status: the statuses that may come next
    Start

VARIABLES
    alive,        \* the writer has not gone down
    copy,         \* per hub: its status of the order
    held          \* the statuses that the writer has held

vars == <<alive, copy, held>>

Init ==
    /\ alive = TRUE
    /\ copy = [h \in Hubs |-> Start]
    /\ held = {Start}

Write(s) ==
    /\ alive /\ s \in Law[copy[Writer]]
    /\ copy' = [copy EXCEPT ![Writer] = s]
    /\ held' = held \cup {s}
    /\ alive' = alive

Follow(h) ==
    /\ alive /\ h # Writer
    /\ \E s \in held \cap Law[copy[h]] : copy' = [copy EXCEPT ![h] = s]
    /\ UNCHANGED <<alive, held>>

Lose ==
    /\ alive /\ alive' = FALSE
    /\ UNCHANGED <<copy, held>>

Fork(h) ==
    /\ ~alive /\ h # Writer
    /\ \E s \in Law[copy[h]] : copy' = [copy EXCEPT ![h] = s]
    /\ UNCHANGED <<alive, held>>

Next ==
    \/ \E s \in UNION {Law[t] : t \in DOMAIN Law} : Write(s)
    \/ \E h \in Hubs : Follow(h) \/ Fork(h)
    \/ Lose

Spec == Init /\ [][Next]_vars
=============================================================================
