------------------------------- MODULE OrderMesh -------------------------------
(***************************************************************************)
(* One order on the mesh: the hub that owns it (delivery-domain/src/       *)
(* hub_ring.rs) emits its status changes, and every hub folds them through *)
(* the receiver of intake.rs, that is, in this order, the DOD gate of      *)
(* mesh-node/src/dod.rs, the hybrid gate and the order Law of lib.rs.      *)
(* Each of the first two remembers what it has let through, whether or not *)
(* the Law then folds it.                                                  *)
(*                                                                         *)
(* The frames of this module are signed and authorized, and their expiry   *)
(* is the constant 9 999 999 999 of intake.rs, which no clock reaches: the *)
(* gates' other refusals are in FrameGate.  The carrier may duplicate,     *)
(* delay and, unless fifo, reorder them.  A hub that crashes is known to   *)
(* be down at once.                                                        *)
(***************************************************************************)
EXTENDS Naturals, Sequences, FiniteSets

CONSTANTS
    Hubs,
    HrwRank,      \* rank of a hub by hrw_weight for this order, ties broken
    Carriers,     \* the carriers to consider: may fifo be TRUE, FALSE
    MaxCrashes,   \* bound: how many hubs go down
    MaxSent       \* bound: how many frames are emitted

ASSUME RankAssumption ==
    /\ HrwRank \in [Hubs -> Nat]
    /\ \A g, h \in Hubs : HrwRank[g] = HrwRank[h] => g = h
    /\ \E h \in Hubs : \A g \in Hubs : HrwRank[g] <= HrwRank[h]

ASSUME CarriersAssumption == Carriers \subseteq BOOLEAN

VARIABLES
    fifo,         \* the carrier keeps the order of the frames; it never changes
    up,           \* hubs that are up, known to all of them
    status,       \* per hub: its local Order.status
    applied,      \* per hub: DodGate.applied
    spent,        \* per hub: HybridGate.seen of its receiver
    sent,         \* the frames emitted so far, in order
    arrived       \* history, per hub: indices of the frames that have reached it

vars == <<fifo, up, status, applied, spent, sent, arrived>>

Statuses == {"Pending", "Confirmed", "Preparing", "Ready", "InDelivery",
             "Delivered", "Rejected", "Cancelled", "PickedUp"}

(* The Law: allowed_next_local, which mirrors the kernel's table.           *)
allowed_next(s) ==
    CASE s = "Pending"    -> {"Confirmed", "Rejected", "Cancelled"}
      [] s = "Confirmed"  -> {"Preparing", "InDelivery"}
      [] s = "Preparing"  -> {"Ready"}
      [] s = "Ready"      -> {"InDelivery", "PickedUp"}
      [] s = "InDelivery" -> {"Delivered"}
      [] OTHER            -> {}

Terminal(s) == s \in {"Delivered", "Rejected", "Cancelled", "PickedUp"}

Ordinal(s) ==
    CASE s = "Pending" -> 0 [] s = "Confirmed" -> 1 [] s = "Preparing" -> 2
      [] s = "Ready" -> 3 [] s = "InDelivery" -> 4 [] s = "Delivered" -> 5
      [] s = "Rejected" -> 6 [] s = "Cancelled" -> 7 [] s = "PickedUp" -> 8

Frame == [from : Statuses, to : Statuses, by : Hubs]

(* The payload's hash: the transition, without the emitting hub.            *)
event_id(f) == <<f.from, f.to>>

\* mutant of nonce: made of the target status alone
nonce_of_target(f) == <<f.by, Ordinal(f.to) % 4>>

(* (order ^ from << 4 ^ to << 1) as u8, and the edge's own byte.  For one   *)
(* order it is determined by these bit groups.                              *)
nonce(f) == <<f.by, Ordinal(f.to) % 8, (Ordinal(f.from) + Ordinal(f.to) \div 8) % 2,
              Ordinal(f.from) \div 2>>

\* mutant of is_owner: every hub that is up thinks it owns the order
is_owner_any(h) == h \in up

(* HRW over the hubs that are up: all observers name the same hub.          *)
is_owner(h) == h \in up /\ \A g \in up : HrwRank[g] <= HrwRank[h]

Init ==
    /\ fifo \in Carriers
    /\ up = Hubs
    /\ status = [h \in Hubs |-> "Pending"]
    /\ applied = [h \in Hubs |-> {}]
    /\ spent = [h \in Hubs |-> {}]
    /\ sent = <<>>
    /\ arrived = [h \in Hubs |-> {}]

\* mutant of DodAdmits: the hubs share one set
DodAdmitsShared(h, f) == \A g \in Hubs : event_id(f) \notin applied[g]

DodAdmits(h, f) == event_id(f) \notin applied[h]

WirePasses(h, f) == nonce(f) \notin spent[h]

(* DeliveryReceiver::admit_and_fold, and the caller's update of its order.  *)
admit_and_fold(h, f) ==
    /\ applied' = IF DodAdmits(h, f)
                  THEN [applied EXCEPT ![h] = @ \cup {event_id(f)}] ELSE applied
    /\ spent' = IF DodAdmits(h, f) /\ WirePasses(h, f)
                THEN [spent EXCEPT ![h] = @ \cup {nonce(f)}] ELSE spent
    /\ status' = IF DodAdmits(h, f) /\ WirePasses(h, f) /\ f.to \in allowed_next(status[h])
                 THEN [status EXCEPT ![h] = f.to] ELSE status

(* IntakeEdge::emit on the owner, which folds its own frame like any other. *)
Emit(h, to) ==
    LET f == [from |-> status[h], to |-> to, by |-> h] IN
    /\ Len(sent) < MaxSent
    /\ is_owner(h) /\ to \in allowed_next(status[h])
    /\ sent' = Append(sent, f)
    /\ arrived' = [arrived EXCEPT ![h] = @ \cup {Len(sent) + 1}]
    /\ admit_and_fold(h, f)
    /\ UNCHANGED <<fifo, up>>

Receive(h, i) ==
    /\ h \in up /\ i \in 1 .. Len(sent)
    /\ fifo => 1 .. i - 1 \subseteq arrived[h]
    /\ arrived' = [arrived EXCEPT ![h] = @ \cup {i}]
    /\ admit_and_fold(h, sent[i])
    /\ UNCHANGED <<fifo, up, sent>>

Crash(h) ==
    /\ h \in up /\ up # {h}
    /\ Cardinality(Hubs \ up) < MaxCrashes
    /\ up' = up \ {h}
    /\ UNCHANGED <<fifo, status, applied, spent, sent, arrived>>

Next ==
    \/ \E h \in Hubs, to \in Statuses : Emit(h, to)
    \/ \E h \in Hubs : \E i \in 1 .. Len(sent) : Receive(h, i)
    \/ \E h \in Hubs : Crash(h)

Spec == Init /\ [][Next]_vars

(* The carrier is reliable: a frame reaches every hub that stays up.        *)
FairSpec ==
    Spec /\ \A h \in Hubs : \A i \in 1 .. MaxSent :
                WF_vars(i \notin arrived[h] /\ i <= Len(sent) /\ Receive(h, i))

-----------------------------------------------------------------------------
TypeOK ==
    /\ fifo \in Carriers
    /\ up \subseteq Hubs
    /\ status \in [Hubs -> Statuses]
    /\ applied \in [Hubs -> SUBSET (Statuses \X Statuses)]
    /\ spent \in [Hubs -> SUBSET (Hubs \X (0 .. 7) \X (0 .. 1) \X (0 .. 4))]
    /\ sent \in Seq(Frame)
    /\ arrived \in [Hubs -> SUBSET (1 .. Len(sent))]

first_owner == CHOOSE h \in Hubs : \A g \in Hubs : HrwRank[g] <= HrwRank[h]

(* hub_ring.rs:3-4, intake.rs:326-328: while the hub that owns the order is *)
(* up, it is its single writer: no hub settles the order to an outcome that *)
(* the owner has not reached, in whatever order the frames get there.       *)
OwnerDecides ==
    first_owner \in up =>
        \A h \in Hubs : Terminal(status[h]) => status[first_owner] = status[h]

(* With frames in order, a hub stands where the last frame that reached it  *)
(* left the owner: duplicates change nothing and no gate turns away a frame *)
(* that is new (intake.rs:189-190).                                         *)
InStep ==
    fifo /\ first_owner \in up =>
        \A h \in Hubs : LET n == Cardinality(arrived[h]) IN
            status[h] = IF n = 0 THEN "Pending" ELSE sent[n].to

(* hub_ring.rs:3-4, "exactly one writer": the mesh of hubs is a register of   *)
(* the owner's.  A hub takes up a status only from among those the owner has *)
(* held, and by the Law from its own; what the owner emits it folds itself   *)
(* at once; and after its crash no hub leaves the Law or an outcome.        *)
HeldByOwner == {"Pending"} \cup {sent[k].to : k \in {i \in DOMAIN sent : sent[i].by = first_owner}}

Register == INSTANCE OrderRegister WITH
    Writer <- first_owner, Law <- [s \in Statuses |-> allowed_next(s)], Start <- "Pending",
    alive <- first_owner \in up, copy <- status, held <- HeldByOwner

IsRegister == Register!Spec

(* intake.rs:326-328: every hub that stays up comes to agree with the owner *)
(* and stays so.                                                            *)
Converges == <>[](\A h \in up : status[h] = status[first_owner])

(* The same where the code does keep its promise: the carrier keeps the     *)
(* order of the frames, and the owner does not go down.                     *)
FollowsOwner == fifo /\ [](first_owner \in up) => Converges
=============================================================================
