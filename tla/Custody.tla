-------------------------------- MODULE Custody --------------------------------
(***************************************************************************)
(* What the store-and-forward overlay of bebop2/proto-wire/src/bpv7.rs     *)
(* promises, without queue, index, link or frames: a bundle stays in       *)
(* custody until its own destination has it, or it has expired, or the     *)
(* courier was asked for it (dequeue_for); and a destination takes a       *)
(* bundle once, from one of its restarts to the next.                      *)
(***************************************************************************)
EXTENDS Naturals

CONSTANT Bundles

VARIABLES
    clock,
    held,         \* bundles in custody
    given,        \* bundles the courier was asked for
    got,          \* deliveries since the destination started
    handed,       \* all deliveries
    again         \* deliveries of what the destination already had: none

vars == <<clock, held, given, got, handed, again>>

Delivery(b) == [bundle |-> b, to |-> b.dest]

Init == clock = 0 /\ held = {} /\ given = {} /\ got = {} /\ handed = {} /\ again = {}

Take(b) ==
    /\ held' = held \cup {b}
    /\ UNCHANGED <<clock, given, got, handed, again>>

HandOver(b) ==
    /\ Delivery(b) \notin got
    /\ got' = got \cup {Delivery(b)}
    /\ handed' = handed \cup {Delivery(b)}
    /\ UNCHANGED <<clock, held, given, again>>

Release(b) ==
    /\ Delivery(b) \in handed
    /\ held' = held \ {b}
    /\ UNCHANGED <<clock, given, got, handed, again>>

Discard(S) ==
    /\ \A b \in S : b.expires < clock
    /\ held' = held \ S
    /\ UNCHANGED <<clock, given, got, handed, again>>

Give(b) ==
    /\ held' \in {held, held \ {b}}
    /\ given' = given \cup {b}
    /\ UNCHANGED <<clock, got, handed, again>>

Restart(d) ==
    /\ got' = {g \in got : g.to # d}
    /\ UNCHANGED <<clock, held, given, handed, again>>

Tick == clock' = clock + 1 /\ UNCHANGED <<held, given, got, handed, again>>

Next ==
    \/ \E b \in Bundles : Take(b) \/ HandOver(b) \/ Release(b) \/ Give(b)
    \/ \E S \in SUBSET Bundles : Discard(S)
    \/ \E b \in Bundles : Restart(b.dest)
    \/ Tick

Spec == Init /\ [][Next]_vars
=============================================================================
