------------------------------- MODULE FrameGate -------------------------------
(***************************************************************************)
(* The receive path of a node: the connections of proto-wire, each with    *)
(* its own HybridGate (proto-cap/src/hybrid_gate.rs) and its own copies of *)
(* the anchor roster and the revocation set, and the replay ledger that    *)
(* WSS and stdio connections of a node share.  QUIC has no such ledger.    *)
(*                                                                         *)
(* recv() is two steps.  Recv decodes a frame and records its nonce under  *)
(* the ledger's lock; Deliver or Refuse is the verification that follows   *)
(* it, and the other connections run in between.  A frame may arrive any   *)
(* number of times, on any connection.                                     *)
(***************************************************************************)
EXTENDS Naturals, FiniteSets

CONSTANTS
    Conns,        \* connection slots
    Ledgered,     \* those of them that share the node's ReplayLedger
    Frames,       \* frames that peers send
    Ids,          \* what can be revoked: subject keys, PQ key ids, capability hashes
    Nonces, Anchors,
    LedgerCap,    \* capacity of the ReplayLedger
    GateCap,      \* MAX_SEEN_NONCES
    Armed,        \* the gates were built by new_redlined
    MaxClock,     \* bound on the clock
    Node, NoFrame

(* ids: its subject key, the id of its PQ key, its revocation hash; root:   *)
(* issuer of the first link of its chain; sound: the rest of verify_chain   *)
(* holds (VerifyChain), and for a breach alarm the payload has the length   *)
(* of one; classical and pq: that signature verifies over this very frame.  *)
Frame == [kind : {"intent", "redline", "breach"}, nonce : Nonces, ids : SUBSET Ids,
          expiry : Nat, root : Anchors, sound : BOOLEAN,
          classical : BOOLEAN, pq : BOOLEAN]

ASSUME ConnsAssumption == Ledgered \subseteq Conns /\ Node \notin Conns
ASSUME FramesAssumption == Frames \subseteq Frame /\ NoFrame \notin Frames

VARIABLES
    clock,        \* wall clock, in seconds
    anchors,      \* the node's anchor roster
    revoked,      \* the node's revocation set
    open,         \* connections that are up
    roster,       \* per connection: its copy of anchors
    revocations,  \* per connection: its copy of revoked
    seen,         \* per connection: HybridGate.seen
    checking,     \* per connection: the frame under verification
    ledger,       \* ReplayLedger.seen
    revoked_since, \* history: per connection, what was revoked since it was made
    dropped_since, \* history: per connection, the anchors dropped since it was made
    forgot,       \* history: the nonces that a gate, or the ledger (Node), has dropped
    got,          \* history: frames delivered on the connection
    twice,        \* history: frames delivered on the connection with a nonce that it had
                  \* let through before, and that its gate has not dropped
    taken,        \* history: nonces delivered behind the ledger since the node started
    again         \* history: frames delivered behind the ledger with a nonce in taken
                  \* that the ledger has not dropped

conn == <<open, roster, revocations>>
since == <<revoked_since, dropped_since>>
history == <<got, twice, taken, again>>
vars == <<clock, anchors, revoked, conn, since, seen, checking, ledger, forgot, history>>

Init ==
    /\ clock = 0
    /\ anchors = Anchors /\ revoked = {}
    /\ open = {}
    /\ roster = [c \in Conns |-> {}]
    /\ revocations = [c \in Conns |-> {}]
    /\ revoked_since = [c \in Conns |-> {}] /\ dropped_since = [c \in Conns |-> {}]
    /\ seen = [c \in Conns |-> {}]
    /\ checking = [c \in Conns |-> NoFrame]
    /\ ledger = {} /\ forgot = [w \in Conns \cup {Node} |-> {}]
    /\ got = [c \in Conns |-> {}]
    /\ twice = {} /\ taken = {} /\ again = {}

\* mutant of Connect: the connection keeps the empty revocation set of connect()
ConnectUntold(c) ==
    /\ c \notin open
    /\ open' = open \cup {c}
    /\ roster' = [roster EXCEPT ![c] = anchors]
    /\ UNCHANGED <<clock, anchors, revoked, revocations, since, seen, checking, ledger, forgot,
                   history>>

(* connect or accept, then with_roster, with_revocations: the gate is new.  *)
Connect(c) ==
    /\ c \notin open
    /\ open' = open \cup {c}
    /\ roster' = [roster EXCEPT ![c] = anchors]
    /\ revocations' = [revocations EXCEPT ![c] = revoked]
    /\ UNCHANGED <<clock, anchors, revoked, since, seen, checking, ledger, forgot, history>>

(* The transport goes, with its gate and what recv was about.               *)
Close(c) ==
    /\ c \in open
    /\ open' = open \ {c}
    /\ roster' = [roster EXCEPT ![c] = {}]
    /\ revocations' = [revocations EXCEPT ![c] = {}]
    /\ revoked_since' = [revoked_since EXCEPT ![c] = {}]
    /\ dropped_since' = [dropped_since EXCEPT ![c] = {}]
    /\ seen' = [seen EXCEPT ![c] = {}]
    /\ checking' = [checking EXCEPT ![c] = NoFrame]
    /\ forgot' = [forgot EXCEPT ![c] = {}]
    /\ got' = [got EXCEPT ![c] = {}]
    /\ twice' = {d \in twice : d[1] # c}
    /\ UNCHANGED <<clock, anchors, revoked, ledger, taken, again>>

(* What a nonce set becomes after an insertion: over capacity, some cap / 2 *)
(* of its entries stay (HashSet order).                                     *)
Bounded(nonces, cap) ==
    IF Cardinality(nonces) > cap
    THEN {kept \in SUBSET nonces : Cardinality(kept) = cap \div 2}
    ELSE {nonces}

Forget(which, dropped) == forgot' = [forgot EXCEPT ![which] = @ \cup dropped]

\* mutant of Observe: the ledger looks, but does not record
ObserveOnly(f) == f.nonce \notin ledger /\ UNCHANGED <<ledger, forgot>>

(* ReplayLedger::observe, when it returns true.                             *)
Observe(f) ==
    /\ f.nonce \notin ledger
    /\ \E kept \in Bounded(ledger \cup {f.nonce}, LedgerCap) :
           /\ ledger' = kept
           /\ Forget(Node, (ledger \cup {f.nonce}) \ kept)

Recv(c, f) ==
    /\ c \in open /\ checking[c] = NoFrame
    /\ \/ c \in Ledgered /\ Observe(f)
       \/ c \notin Ledgered /\ UNCHANGED <<ledger, forgot>>
    /\ checking' = [checking EXCEPT ![c] = f]
    /\ UNCHANGED <<clock, anchors, revoked, conn, since, seen, history>>

Signed(f) == f.classical /\ f.pq

(* verify_chain (the module VerifyChain has it link by link).               *)
Vouched(c, f) == f.sound /\ f.root \in roster[c] /\ f.expiry > clock

(* recv(): the ledger has the nonce already.                                *)
ReplayDetected(c, f) ==
    /\ c \in open \cap Ledgered /\ checking[c] = NoFrame
    /\ f.nonce \in ledger
    /\ UNCHANGED vars

\* mutant of GatePasses: the nonce set is written and never read
GateForgets(c, f) ==
    /\ Vouched(c, f)
    /\ ~(Armed /\ f.kind = "redline")
    /\ f.ids \cap revocations[c] = {}
    /\ Signed(f)

(* HybridGate::check under RequireBoth, in its order.                       *)
GatePasses(c, f) ==
    /\ Vouched(c, f)
    /\ ~(Armed /\ f.kind = "redline")
    /\ f.ids \cap revocations[c] = {}
    /\ Signed(f)
    /\ f.nonce \notin seen[c]

(* A breach alarm is signed by its own subject and never sees the gate.     *)
Passes(c, f) == IF f.kind = "breach" THEN Signed(f) /\ f.sound ELSE GatePasses(c, f)

GotNonces(c) == {g.nonce : g \in got[c]}

(* c delivered a frame of the same route (the gate, or breach_verify) with  *)
(* this nonce before.                                                       *)
Repeats(c, f) == \E g \in got[c] : g.nonce = f.nonce /\ (g.kind = "breach" <=> f.kind = "breach")

RecordDelivery(c, f) ==
    /\ got' = [got EXCEPT ![c] = @ \cup {f}]
    /\ twice' = IF Repeats(c, f) /\ f.nonce \notin forgot[c] THEN twice \cup {<<c, f>>} ELSE twice
    /\ IF c \in Ledgered
       THEN /\ taken' = taken \cup {f.nonce}
            /\ again' = IF f.nonce \in taken \ forgot[Node] THEN again \cup {f} ELSE again
       ELSE UNCHANGED <<taken, again>>

(* The last step of check: insert, and halve the set when it is over its    *)
(* capacity.                                                                *)
RecordNonce(c, f) ==
    \E kept \in Bounded(seen[c] \cup {f.nonce}, GateCap) :
        /\ seen' = [seen EXCEPT ![c] = kept]
        /\ Forget(c, (seen[c] \cup {f.nonce}) \ kept)

Deliver(c) ==
    LET f == checking[c] IN
    /\ f # NoFrame /\ Passes(c, f)
    /\ checking' = [checking EXCEPT ![c] = NoFrame]
    /\ IF f.kind = "breach" THEN UNCHANGED <<seen, forgot>> ELSE RecordNonce(c, f)
    /\ RecordDelivery(c, f)
    /\ UNCHANGED <<clock, anchors, revoked, conn, since, ledger>>

\* mutant of Refuse: record before verify
RefuseRecords(c) ==
    /\ checking[c] # NoFrame /\ ~Passes(c, checking[c])
    /\ RecordNonce(c, checking[c])
    /\ checking' = [checking EXCEPT ![c] = NoFrame]
    /\ UNCHANGED <<clock, anchors, revoked, conn, since, ledger, history>>

Refuse(c) ==
    /\ checking[c] # NoFrame /\ ~Passes(c, checking[c])
    /\ checking' = [checking EXCEPT ![c] = NoFrame]
    /\ UNCHANGED <<clock, anchors, revoked, conn, since, seen, ledger, forgot, history>>

(* revoke_key, revoke_capability and drop_anchor, on the node's own sets;   *)
(* connections that are open keep their copies.                            *)
Revoke(id) ==
    /\ revoked' = revoked \cup {id}
    /\ revoked_since' = [c \in Conns |-> revoked_since[c] \cup
                             IF c \in open THEN {id} \ revoked ELSE {}]
    /\ UNCHANGED <<clock, anchors, conn, dropped_since, seen, checking, ledger, forgot, history>>

DropAnchor(a) ==
    /\ anchors' = anchors \ {a}
    /\ dropped_since' = [c \in Conns |-> dropped_since[c] \cup
                             IF c \in open THEN {a} \cap anchors ELSE {}]
    /\ UNCHANGED <<clock, revoked, conn, revoked_since, seen, checking, ledger, forgot, history>>

Tick ==
    /\ clock < MaxClock
    /\ clock' = clock + 1
    /\ UNCHANGED <<anchors, revoked, conn, since, seen, checking, ledger, forgot, history>>

(* Everything is in memory, the revocations too; the anchors are read from   *)
(* the genesis again.                                                       *)
Restart ==
    /\ open' = {} /\ revoked' = {}
    /\ checking' = [c \in Conns |-> NoFrame]
    /\ seen' = [c \in Conns |-> {}]
    /\ ledger' = {} /\ forgot' = [w \in Conns \cup {Node} |-> {}]
    /\ got' = [c \in Conns |-> {}]
    /\ twice' = {} /\ taken' = {} /\ again' = {}
    /\ roster' = [c \in Conns |-> {}] /\ revocations' = [c \in Conns |-> {}]
    /\ revoked_since' = [c \in Conns |-> {}] /\ dropped_since' = [c \in Conns |-> {}]
    /\ anchors' = Anchors
    /\ UNCHANGED clock

Next ==
    \/ \E c \in Conns : Connect(c) \/ Close(c) \/ Deliver(c) \/ Refuse(c)
    \/ \E c \in Conns, f \in Frames : Recv(c, f) \/ ReplayDetected(c, f)
    \/ \E id \in Ids : Revoke(id)
    \/ \E a \in Anchors : DropAnchor(a)
    \/ Tick
    \/ Restart

Spec == Init /\ [][Next]_vars

-----------------------------------------------------------------------------
TypeOK ==
    /\ clock \in Nat
    /\ anchors \subseteq Anchors /\ revoked \subseteq Ids
    /\ open \subseteq Conns
    /\ roster \in [Conns -> SUBSET Anchors]
    /\ revocations \in [Conns -> SUBSET Ids]
    /\ revoked_since \in [Conns -> SUBSET Ids]
    /\ dropped_since \in [Conns -> SUBSET Anchors]
    /\ seen \in [Conns -> SUBSET Nonces]
    /\ checking \in [Conns -> Frames \cup {NoFrame}]
    /\ ledger \subseteq Nonces /\ forgot \in [Conns \cup {Node} -> SUBSET Nonces]
    /\ got \in [Conns -> SUBSET Frames]
    /\ twice \subseteq Conns \X Frames
    /\ taken \subseteq Nonces /\ again \subseteq Frames

(* hybrid_gate.rs:52-55 (H2, verify-then-record): a nonce in the gate's set *)
(* is the nonce of a frame that this gate let through.                      *)
OnlyDeliveredRecorded == \A c \in Conns : seen[c] \subseteq GotNonces(c)

(* hybrid_gate.rs:66-67: one gate lets a nonce through once, for every      *)
(* frame it sees.  A set that is halved (hybrid_gate.rs:201) gives up that   *)
(* claim for the nonces it drops, and for no other.                         *)
GateAcceptsOnce == \A d \in twice : d[2].kind = "breach"

(* wss_transport.rs:97-104 (MESH-10): the connections behind the shared     *)
(* ledger deliver a nonce once among them, breach alarms included, whatever *)
(* they interleave, unless it is one that the ledger dropped when it was     *)
(* halved (wss_transport.rs:127).                                           *)
NodeAcceptsOnce == again = {}

(* revocation.rs:67-68 and roster.rs:218-222: what is revoked is rejected    *)
(* from then on, and a dropped anchor no longer vouches.  A connection that  *)
(* is open keeps its copies (discovery.rs:351), so this is not true of it;    *)
(* but the withdrawal reaches every connection that is made later, in place  *)
(* of one that closed as well.  Only frames with a key that was revoked, or   *)
(* an anchor that was dropped, after the connection was made come through.   *)
WithdrawnStaysOut ==
    \A c \in Conns : \A f \in got[c] :
        f.kind # "breach" => /\ f.ids \cap revoked \subseteq revoked_since[c]
                             /\ f.root \in anchors \cup dropped_since[c]

(* revocation.rs:67-68 word for word.  Not so on a connection that is open   *)
(* (README, "Disagreements").                                               *)
RevokedIsRejected ==
    [][\A c \in Conns : \A f \in got'[c] \ got[c] :
           f.kind # "breach" => f.ids \cap revoked = {}]_vars

(* breach.rs:59: an alarm's nonce is single-use.  Not so on a carrier without *)
(* a ledger (README, "Disagreements").                                      *)
BreachSingleUse == \A d \in twice : d[2].kind # "breach"
=============================================================================
