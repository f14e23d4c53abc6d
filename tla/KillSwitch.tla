------------------------------- MODULE KillSwitch -------------------------------
(***************************************************************************)
(* The operator kill switch of bebop2/mesh-node/src/kill_switch.rs, with   *)
(* the boot path that builds it (boot.rs).                                 *)
(*                                                                         *)
(* KillSequence::handle is one call on &mut self, but it blocks on the     *)
(* archiver half-way, and the node can stop at any point of it.  Its three *)
(* side effects are therefore three actions, in the order of the code:     *)
(* Accept (ledger), Confirm or Refuse (the archiver's answer), Halt.  Only *)
(* what the archiver stored survives a Crash; the ledger and the state are *)
(* fields of a value that boot() builds anew.                              *)
(***************************************************************************)
EXTENDS Naturals

CONSTANTS
    Keys,         \* Ed25519 public keys an order can name
    KillAnchors,  \* the keys genesis enrolls as kill anchors
    Nonces,
    Reasons,
    Receipts,     \* content hashes of COLD snapshots
    MaxBoots,     \* bound: how often the node starts
    None

ASSUME AnchorsAssumption == KillAnchors \subseteq Keys
ASSUME NoneAssumption == None \notin Receipts

VARIABLES
    up,           \* the hub is booted
    boots,        \* how often it was (bounds the crashes)
    ledger,       \* ReplayLedger.seen
    state,        \* KillState
    handling,     \* the order handle() is working on, and its receipt so far
    durable,      \* snapshots the archiver holds (survives a crash)
    handled,      \* history: how often each order was accepted since boot
    halted_by,    \* history: the order that the state comes from, once halted
    failed        \* history: ids of the orders whose snapshot failed since boot

history == <<handled, halted_by, failed>>
vars == <<up, boots, ledger, state, handling, durable, history>>

(* signed: the signature verifies under anchor over (anchor, nonce, reason) *)
Order == [anchor : Keys, nonce : Nonces, reason : Reasons, signed : BOOLEAN]

ReplayIds == [anchor : Keys, nonce : Nonces, reason : Reasons]

Running == [at |-> "running"]
Halted == [at : {"halted"}, receipt : Receipts, reason : Reasons]

NotHandling == [at |-> "none"]
Handling == [at : {"handling"}, order : Order, receipt : Receipts \cup {None}]

(* SHA3-256 of the signing domain: the anchor, the nonce and the reason.    *)
replay_id(order) ==
    [anchor |-> order.anchor, nonce |-> order.nonce, reason |-> order.reason]

\* mutant of verify: the replay check is dropped
verify_any_replay(order) == order.anchor \in KillAnchors /\ order.signed

\* mutant of verify: the signature is not checked
verify_unsigned(order) == order.anchor \in KillAnchors /\ replay_id(order) \notin ledger

(* KillSequence::verify; the empty anchor set is refused by membership.     *)
verify(order) ==
    /\ order.anchor \in KillAnchors
    /\ order.signed
    /\ replay_id(order) \notin ledger

Init ==
    /\ up = FALSE
    /\ boots = 0
    /\ ledger = {}
    /\ state = Running
    /\ handling = NotHandling
    /\ durable = {}
    /\ handled = [id \in ReplayIds |-> 0]
    /\ halted_by = {} /\ failed = {}

(* boot(): the sequencer starts Running over an empty ledger.               *)
Boot ==
    /\ ~up /\ boots < MaxBoots
    /\ up' = TRUE
    /\ boots' = boots + 1
    /\ ledger' = {}
    /\ state' = Running
    /\ handling' = NotHandling
    /\ handled' = [id \in ReplayIds |-> 0]
    /\ halted_by' = {} /\ failed' = {}
    /\ UNCHANGED durable

(* handle(), up to the call of the archiver.                                *)
Accept(order) ==
    /\ up /\ handling = NotHandling
    /\ verify(order)
    /\ ledger' = ledger \cup {replay_id(order)}
    /\ handling' = [at |-> "handling", order |-> order, receipt |-> None]
    /\ handled' = [handled EXCEPT ![replay_id(order)] = @ + 1]
    /\ UNCHANGED <<up, boots, state, durable, halted_by, failed>>

(* handle(), when verify refuses: no side effect.                           *)
RejectOrder(order) ==
    /\ up /\ handling = NotHandling
    /\ ~verify(order)
    /\ UNCHANGED vars

(* The archiver confirms the snapshot: it is durable before handle() goes on. *)
Confirm(receipt) ==
    /\ up /\ handling # NotHandling /\ handling.receipt = None
    /\ durable' = durable \cup {receipt}
    /\ handling' = [handling EXCEPT !.receipt = receipt]
    /\ UNCHANGED <<up, boots, ledger, state, history>>

\* mutant of Refuse: a refused snapshot is taken for a confirmed one
RefuseButHalt ==
    /\ up /\ handling # NotHandling /\ handling.receipt = None
    /\ \E receipt \in Receipts :
           state' = [at |-> "halted", receipt |-> receipt, reason |-> handling.order.reason]
    /\ halted_by' = {handling.order}
    /\ handling' = NotHandling
    /\ UNCHANGED <<up, boots, ledger, durable, handled, failed>>

(* SnapshotNotConfirmed: handle() returns, the hub stays in its state.      *)
Refuse ==
    /\ up /\ handling # NotHandling /\ handling.receipt = None
    /\ handling' = NotHandling
    /\ failed' = failed \cup {replay_id(handling.order)}
    /\ UNCHANGED <<up, boots, ledger, state, durable, handled, halted_by>>

(* The last step of handle().  A second authentic order runs it again.      *)
Halt ==
    /\ up /\ handling # NotHandling /\ handling.receipt # None
    /\ state' = [at |-> "halted", receipt |-> handling.receipt,
                 reason |-> handling.order.reason]
    /\ halted_by' = {handling.order}
    /\ handling' = NotHandling
    /\ UNCHANGED <<up, boots, ledger, durable, handled, failed>>

(* The process stops.  What it held in memory is gone.                      *)
Crash ==
    /\ up
    /\ up' = FALSE
    /\ ledger' = {}
    /\ state' = Running
    /\ handling' = NotHandling
    /\ handled' = [id \in ReplayIds |-> 0]
    /\ halted_by' = {} /\ failed' = {}
    /\ UNCHANGED <<boots, durable>>

Next ==
    \/ Boot
    \/ \E order \in Order : Accept(order) \/ RejectOrder(order)
    \/ \E receipt \in Receipts : Confirm(receipt)
    \/ Refuse
    \/ Halt
    \/ Crash

Spec == Init /\ [][Next]_vars

-----------------------------------------------------------------------------
TypeOK ==
    /\ up \in BOOLEAN
    /\ boots \in Nat
    /\ ledger \subseteq ReplayIds
    /\ state \in {Running} \cup Halted
    /\ handling \in {NotHandling} \cup Handling
    /\ durable \subseteq Receipts
    /\ handled \in [ReplayIds -> Nat]
    /\ halted_by \subseteq Order /\ failed \subseteq ReplayIds

IsHalted == state # Running

(* kill_switch.rs:15-24, the HARD invariant: a halted hub has its COLD      *)
(* snapshot in the archiver, whatever failed or crashed on the way.         *)
HaltedIsBacked == IsHalted => state.receipt \in durable

(* kill_switch.rs:8-13 and 250-252: the order that halted the hub is one     *)
(* that an enrolled kill anchor signed, over the reason that the state names. *)
(* It is spent, so it cannot halt the hub a second time; and it is not one   *)
(* whose snapshot had failed before, as a retry takes a fresh order.         *)
HaltIsAuthorized ==
    IsHalted => \E order \in halted_by :
        /\ order.anchor \in KillAnchors /\ order.signed
        /\ order.reason = state.reason
        /\ replay_id(order) \in ledger \ failed

(* kill_switch.rs:109-111: between two boots the same order is accepted at  *)
(* most once, even when its snapshot failed.                                *)
OrderAcceptedOnce == \A id \in ReplayIds : handled[id] <= 1
=============================================================================
