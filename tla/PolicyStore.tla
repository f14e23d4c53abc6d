------------------------------ MODULE PolicyStore ------------------------------
(***************************************************************************)
(* The live hub policy of bebop2/mesh-node/src/hub_policy.rs: an           *)
(* RwLock<Arc<HubPolicy>> that any number of threads may revise.           *)
(*                                                                         *)
(* apply_revision reads the live policy under the read lock and lets it    *)
(* go, floor-gates the candidate against that snapshot, and only then      *)
(* takes the write lock to swap.  The two critical sections are the two    *)
(* actions FloorGate and Swap; other threads run between them.             *)
(***************************************************************************)
EXTENDS Naturals

CONSTANTS
    Appliers,     \* threads that may call apply_revision
    Categories,   \* red-line categories an allow-list can name
    Binds,        \* listener addresses
    BootAllow,    \* allow-list of the policy the hub booted with
    BootBinds,    \* enabled listeners of that policy
    MaxRevision   \* bound: no revision is gated once this one is live

ASSUME BootAssumption == BootAllow \subseteq Categories /\ BootBinds \subseteq Binds
ASSUME MaxRevisionAssumption == MaxRevision \in Nat

VARIABLES
    live,         \* the policy behind the lock
    call          \* per thread: idle, or holding the policy it loaded and a candidate

vars == <<live, call>>

Policy == [revision : Nat, allow : SUBSET Categories, binds : SUBSET Binds]

Idle == [at |-> "idle"]
Gated == [at : {"gated"}, current : Policy, candidate : Policy]

Init ==
    /\ live = [revision |-> 0, allow |-> BootAllow, binds |-> BootBinds]
    /\ call = [a \in Appliers |-> Idle]

\* mutant of Widens: a candidate is refused only when it shares nothing with the live list
WidensDisjoint(allow, current) == allow # {} /\ allow \cap current.allow = {}

Widens(allow, current) == ~(allow \subseteq current.allow)

\* mutant of FloorGate: the candidate keeps the number of the policy it was compared with
FloorGateNoBump(a, allow, binds) ==
    /\ call[a] = Idle
    /\ live.revision < MaxRevision
    /\ ~Widens(allow, live)
    /\ call' = [call EXCEPT ![a] =
                  [at |-> "gated", current |-> live,
                   candidate |-> [revision |-> live.revision, allow |-> allow, binds |-> binds]]]
    /\ UNCHANGED live

(* First half of apply_revision: load the live policy, floor-gate the       *)
(* candidate, number it after the policy that was loaded.                   *)
FloorGate(a, allow, binds) ==
    /\ call[a] = Idle
    /\ live.revision < MaxRevision
    /\ ~Widens(allow, live)
    /\ call' = [call EXCEPT ![a] =
                  [at |-> "gated", current |-> live,
                   candidate |-> [revision |-> live.revision + 1,
                                  allow |-> allow, binds |-> binds]]]
    /\ UNCHANGED live

(* The floor-gate's early return: Rejected, the last-good policy stays.     *)
Reject(a, allow) ==
    /\ call[a] = Idle
    /\ Widens(allow, live)
    /\ UNCHANGED vars

(* Second half: the write lock, the swap, the outcome.                      *)
Swap(a) ==
    /\ call[a] # Idle
    /\ live' = call[a].candidate
    /\ call' = [call EXCEPT ![a] = Idle]

Next ==
    \E a \in Appliers :
        \/ \E allow \in SUBSET Categories, binds \in SUBSET Binds : FloorGate(a, allow, binds)
        \/ \E allow \in SUBSET Categories : Reject(a, allow)
        \/ Swap(a)

Spec == Init /\ [][Next]_vars

-----------------------------------------------------------------------------
TypeOK ==
    /\ live \in Policy
    /\ call \in [Appliers -> {Idle} \cup Gated]

(* No interleaving of revisions ever allows a red-line category that the    *)
(* boot policy did not: whatever the races of apply_revision, the operator's *)
(* boot allow-list is a ceiling.                                            *)
WithinBoot == live.allow \subseteq BootAllow

(* hub_policy.rs:17-18 and 100, as far as the code keeps it: a revision that *)
(* replaces the very policy it was compared with takes the next number and   *)
(* does not widen the red-line scope, whatever else is on its way.           *)
InTurn ==
    [][\A a \in Appliers :
           Swap(a) /\ call[a].current = live =>
               live'.revision = live.revision + 1 /\ live'.allow \subseteq live.allow]_vars

(* hub_policy.rs:17-18: a revision may never widen the red-line scope of    *)
(* the policy it replaces.                                                  *)
NeverWidens == [][live'.allow \subseteq live.allow]_vars
=============================================================================
