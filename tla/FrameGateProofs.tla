---------------------------- MODULE FrameGateProofs ----------------------------
(***************************************************************************)
(* The receive path for any number of connections and frames.  Two         *)
(* connections verify at the same time, each after having recorded a nonce *)
(* in the shared ledger; that no nonce comes out twice needs what is true  *)
(* of all verifications in progress (Exclusive), not only of the ledger.   *)
(***************************************************************************)
EXTENDS FrameGate, TLAPS

Busy(c) == c \in Ledgered /\ checking[c] # NoFrame

(* Every nonce delivered or under verification behind the ledger is in it,  *)
(* or was dropped from it.  Two verifications in progress share a nonce, or *)
(* one of them has a nonce that was delivered, only if it was dropped.      *)
Exclusive ==
    /\ taken \subseteq ledger \cup forgot[Node]
    /\ \A c \in Conns : Busy(c) =>
           /\ checking[c].nonce \in ledger \cup forgot[Node]
           /\ checking[c].nonce \in taken => checking[c].nonce \in forgot[Node]
    /\ \A c, d \in Conns :
           Busy(c) /\ Busy(d) /\ c # d /\ checking[c].nonce = checking[d].nonce
               => checking[c].nonce \in forgot[Node]

OnceInv == TypeOK /\ Exclusive /\ NodeAcceptsOnce

(* A connection that is not up verifies nothing and has delivered nothing.  *)
ClosedIsIdle ==
    \A c \in Conns \ open :
        /\ checking[c] = NoFrame /\ got[c] = {}
        /\ revoked_since[c] = {} /\ dropped_since[c] = {}

(* What the gate of a connection let through, its copies vouch for.         *)
Vetted ==
    \A c \in Conns : \A f \in got[c] :
        f.kind # "breach" => f.ids \cap revocations[c] = {} /\ f.root \in roster[c]

(* The copies of an open connection are behind the node by what was         *)
(* withdrawn since it was made, and by no more.                             *)
CopiesLag ==
    \A c \in open : /\ revoked \subseteq revocations[c] \cup revoked_since[c]
                    /\ roster[c] \subseteq anchors \cup dropped_since[c]

GateInv == TypeOK /\ ClosedIsIdle /\ OnlyDeliveredRecorded /\ Vetted /\ CopiesLag

LEMMA FrameType ==
  ASSUME NEW f \in Frames
  PROVE  f \in Frame /\ f.nonce \in Nonces /\ f # NoFrame
  BY FramesAssumption DEF Frame

LEMMA BoundedKeeps ==
  ASSUME NEW nonces, NEW cap, NEW kept \in Bounded(nonces, cap)
  PROVE  kept \subseteq nonces
  BY DEF Bounded

LEMMA ForgetType ==
  ASSUME forgot \in [Conns \cup {Node} -> SUBSET Nonces],
         NEW which \in Conns \cup {Node}, NEW dropped \in SUBSET Nonces, Forget(which, dropped)
  PROVE  /\ forgot' \in [Conns \cup {Node} -> SUBSET Nonces]
         /\ forgot'[which] = forgot[which] \cup dropped
         /\ \A w \in Conns \cup {Node} : w # which => forgot'[w] = forgot[w]
  BY DEF Forget

LEMMA InitTypes == Init => TypeOK
  BY DEF Init, TypeOK

LEMMA ConnectTypes == ASSUME TypeOK, NEW c \in Conns, Connect(c) PROVE TypeOK'
  BY DEF TypeOK, Connect, since, history

LEMMA CloseTypes == ASSUME TypeOK, NEW c \in Conns, Close(c) PROVE TypeOK'
  BY DEF TypeOK, Close

LEMMA RecvTypes ==
  ASSUME TypeOK, NEW c \in Conns, NEW f \in Frames, Recv(c, f) PROVE TypeOK'
<1>1. /\ clock' = clock /\ anchors' = anchors /\ revoked' = revoked /\ open' = open
      /\ roster' = roster /\ revocations' = revocations /\ seen' = seen
      /\ got' = got /\ twice' = twice /\ taken' = taken /\ again' = again
      /\ revoked_since' = revoked_since /\ dropped_since' = dropped_since
      /\ checking' = [checking EXCEPT ![c] = f]
  BY DEF Recv, conn, since, history
<1>2. ledger' \subseteq Nonces /\ forgot' \in [Conns \cup {Node} -> SUBSET Nonces]
  <2>1. CASE UNCHANGED <<ledger, forgot>>
    BY <2>1 DEF TypeOK
  <2>2. CASE Observe(f)
    <3>1. PICK kept \in Bounded(ledger \cup {f.nonce}, LedgerCap) :
              ledger' = kept /\ Forget(Node, (ledger \cup {f.nonce}) \ kept)
      BY <2>2 DEF Observe
    <3>2. kept \subseteq Nonces /\ (ledger \cup {f.nonce}) \ kept \in SUBSET Nonces
      BY <3>1, BoundedKeeps, FrameType DEF TypeOK
    <3> QED BY <3>1, <3>2, ForgetType DEF TypeOK
  <2> QED BY <2>1, <2>2 DEF Recv
<1> QED BY <1>1, <1>2 DEF TypeOK

LEMMA DeliverTypes == ASSUME TypeOK, NEW c \in Conns, Deliver(c) PROVE TypeOK'
<1> DEFINE f == checking[c]
<1>1. /\ clock' = clock /\ anchors' = anchors /\ revoked' = revoked /\ open' = open
      /\ roster' = roster /\ revocations' = revocations /\ ledger' = ledger
      /\ revoked_since' = revoked_since /\ dropped_since' = dropped_since
      /\ checking' = [checking EXCEPT ![c] = NoFrame]
      /\ f \in Frames /\ f.nonce \in Nonces
  BY FrameType DEF Deliver, conn, since, TypeOK
<1>2. seen' \in [Conns -> SUBSET Nonces] /\ forgot' \in [Conns \cup {Node} -> SUBSET Nonces]
  <2>1. CASE f.kind = "breach"
    BY <2>1 DEF Deliver, TypeOK
  <2>2. CASE f.kind # "breach"
    <3>1. PICK kept \in Bounded(seen[c] \cup {f.nonce}, GateCap) :
              /\ seen' = [seen EXCEPT ![c] = kept]
              /\ Forget(c, (seen[c] \cup {f.nonce}) \ kept)
      BY <2>2 DEF Deliver, RecordNonce
    <3>2. kept \subseteq Nonces /\ (seen[c] \cup {f.nonce}) \ kept \in SUBSET Nonces
      BY <1>1, <3>1, BoundedKeeps DEF TypeOK
    <3> QED BY <3>1, <3>2, ForgetType DEF TypeOK
  <2> QED BY <2>1, <2>2
<1>3. /\ got' \in [Conns -> SUBSET Frames] /\ twice' \subseteq Conns \X Frames
      /\ taken' \subseteq Nonces /\ again' \subseteq Frames
  BY <1>1 DEF Deliver, RecordDelivery, Repeats, TypeOK
<1> QED BY <1>1, <1>2, <1>3 DEF TypeOK

LEMMA OtherTypes ==
  ASSUME TypeOK,
         \/ \E c \in Conns : Refuse(c)
         \/ \E c \in Conns, f \in Frames : ReplayDetected(c, f)
         \/ \E id \in Ids : Revoke(id)
         \/ \E a \in Anchors : DropAnchor(a)
         \/ Tick \/ Restart \/ UNCHANGED vars
  PROVE  TypeOK'
<1>1. CASE \E c \in Conns : Refuse(c)
  BY <1>1 DEF Refuse, TypeOK, conn, since, history
<1>2. CASE \E c \in Conns, f \in Frames : ReplayDetected(c, f)
  BY <1>2 DEF ReplayDetected, TypeOK, vars, conn, since, history
<1>3. CASE \E id \in Ids : Revoke(id)
  BY <1>3 DEF Revoke, TypeOK, conn, history
<1>4. CASE \E a \in Anchors : DropAnchor(a)
  BY <1>4 DEF DropAnchor, TypeOK, conn, history
<1>5. CASE Tick
  BY <1>5 DEF Tick, TypeOK, conn, since, history
<1>6. CASE Restart
  BY <1>6 DEF Restart, TypeOK
<1>7. CASE UNCHANGED vars
  BY <1>7 DEF vars, TypeOK, conn, since, history
<1> QED BY <1>1, <1>2, <1>3, <1>4, <1>5, <1>6, <1>7

LEMMA NextTypes == TypeOK /\ [Next]_vars => TypeOK'
  BY ConnectTypes, CloseTypes, RecvTypes, DeliverTypes, OtherTypes DEF Next

-----------------------------------------------------------------------------
(* A nonce that was delivered, or is under verification, and that Observe   *)
(* lets through all the same, is one that the ledger had dropped.           *)
LEMMA RecvOnce ==
  ASSUME OnceInv, NEW c \in Conns, NEW f \in Frames, Recv(c, f)
  PROVE  Exclusive' /\ NodeAcceptsOnce'
<1>1. taken' = taken /\ again' = again /\ checking' = [checking EXCEPT ![c] = f]
  BY DEF Recv, history
<1>2. checking'[c] = f /\ \A d \in Conns : d # c => checking'[d] = checking[d]
  BY <1>1 DEF OnceInv, TypeOK
<1>3. CASE c \notin Ledgered
  <2>1. ledger' = ledger /\ forgot' = forgot
    BY <1>3 DEF Recv
  <2> QED BY <2>1, <1>1, <1>2, <1>3 DEF OnceInv, Exclusive, NodeAcceptsOnce, Busy
<1>4. CASE c \in Ledgered
  <2> DEFINE known == ledger \cup forgot[Node]
             known2 == ledger' \cup forgot'[Node]
  <2>1. PICK kept \in Bounded(ledger \cup {f.nonce}, LedgerCap) :
            ledger' = kept /\ Forget(Node, (ledger \cup {f.nonce}) \ kept)
    BY <1>4 DEF Recv, Observe
  <2>2. f.nonce \notin ledger
    BY <1>4 DEF Recv, Observe
  <2>3. kept \subseteq ledger \cup {f.nonce}
    BY <2>1, BoundedKeeps
  <2>4. forgot'[Node] = forgot[Node] \cup ((ledger \cup {f.nonce}) \ kept)
    <3>1. (ledger \cup {f.nonce}) \ kept \in SUBSET Nonces
      BY FrameType DEF OnceInv, TypeOK
    <3> QED BY <2>1, <3>1, ForgetType DEF OnceInv, TypeOK
  <2>5. known2 = known \cup {f.nonce} /\ forgot[Node] \subseteq forgot'[Node]
    BY <2>1, <2>3, <2>4
  <2>6. \A n \in known : n = f.nonce => n \in forgot'[Node]
    BY <2>2, <2>4
  <2>7. taken' \subseteq known2
    BY <1>1, <2>5 DEF OnceInv, Exclusive
  <2>8. ASSUME NEW d \in Conns, Busy(d)'
        PROVE  /\ checking'[d].nonce \in known2
               /\ checking'[d].nonce \in taken' => checking'[d].nonce \in forgot'[Node]
    <3>1. CASE d = c
      BY <3>1, <1>1, <1>2, <2>5, <2>6 DEF OnceInv, Exclusive
    <3>2. CASE d # c
      BY <3>2, <2>8, <1>1, <1>2, <2>5 DEF OnceInv, Exclusive, Busy
    <3> QED BY <3>1, <3>2
  <2>9. ASSUME NEW d \in Conns, NEW e \in Conns, Busy(d)', Busy(e)', d # e,
               checking'[d].nonce = checking'[e].nonce
        PROVE  checking'[d].nonce \in forgot'[Node]
    <3>1. CASE d = c
      <4>1. Busy(e) /\ checking[e].nonce = f.nonce
        BY <3>1, <2>9, <1>2 DEF Busy
      <4> QED BY <4>1, <3>1, <1>2, <2>6 DEF OnceInv, Exclusive
    <3>2. CASE e = c
      <4>1. Busy(d) /\ checking[d].nonce = f.nonce /\ checking'[d].nonce = f.nonce
        BY <3>2, <2>9, <1>2 DEF Busy
      <4> QED BY <4>1, <2>6 DEF OnceInv, Exclusive
    <3>3. CASE d # c /\ e # c
      <4>1. /\ Busy(d) /\ Busy(e) /\ checking[d].nonce = checking[e].nonce
            /\ checking'[d] = checking[d]
        BY <3>3, <2>9, <1>2 DEF Busy
      <4> QED BY <4>1, <2>9, <2>5 DEF OnceInv, Exclusive
    <3> QED BY <3>1, <3>2, <3>3
  <2> QED BY <1>1, <2>7, <2>8, <2>9 DEF OnceInv, Exclusive, NodeAcceptsOnce
<1> QED BY <1>3, <1>4

LEMMA DeliverForgets ==
  ASSUME TypeOK, NEW c \in Conns, Deliver(c)
  PROVE  \A w \in Conns \cup {Node} : w # c => forgot'[w] = forgot[w]
<1> DEFINE f == checking[c]
<1>1. CASE f.kind = "breach"
  BY <1>1 DEF Deliver
<1>2. CASE f.kind # "breach"
  <2>1. PICK kept \in Bounded(seen[c] \cup {f.nonce}, GateCap) :
            Forget(c, (seen[c] \cup {f.nonce}) \ kept)
    BY <1>2 DEF Deliver, RecordNonce
  <2>2. f.nonce \in Nonces
    BY FrameType DEF Deliver, TypeOK
  <2>3. (seen[c] \cup {f.nonce}) \ kept \in SUBSET Nonces
    BY <2>2 DEF TypeOK
  <2> QED BY <2>1, <2>3, ForgetType DEF TypeOK
<1> QED BY <1>1, <1>2

LEMMA DeliverOnce ==
  ASSUME OnceInv, NEW c \in Conns, Deliver(c)
  PROVE  Exclusive' /\ NodeAcceptsOnce'
<1> DEFINE f == checking[c]
<1>1. /\ f # NoFrame /\ ledger' = ledger
      /\ checking' = [checking EXCEPT ![c] = NoFrame]
  BY DEF Deliver
<1>2. checking'[c] = NoFrame /\ \A d \in Conns : d # c => checking'[d] = checking[d]
  BY <1>1 DEF OnceInv, TypeOK
<1>3. forgot'[Node] = forgot[Node]
  BY DeliverForgets, ConnsAssumption DEF OnceInv
<1>4. /\ c \in Ledgered =>
             /\ taken' = taken \cup {f.nonce}
             /\ again' = IF f.nonce \in taken \ forgot[Node] THEN again \cup {f} ELSE again
      /\ c \notin Ledgered => taken' = taken /\ again' = again
  BY DEF Deliver, RecordDelivery, Repeats
<1>5. CASE c \in Ledgered
  <2>1. /\ f.nonce \in ledger \cup forgot[Node]
        /\ f.nonce \in taken => f.nonce \in forgot[Node]
        /\ \A d \in Conns : Busy(d) /\ d # c /\ checking[d].nonce = f.nonce
               => f.nonce \in forgot[Node]
    BY <1>1, <1>5 DEF OnceInv, Exclusive, Busy
  <2>2. NodeAcceptsOnce' /\ taken' = taken \cup {f.nonce}
    BY <1>4, <1>5, <2>1 DEF OnceInv, NodeAcceptsOnce
  <2>3. \A d \in Conns : Busy(d)' => d # c /\ Busy(d) /\ checking'[d] = checking[d]
    BY <1>2 DEF Busy
  <2> QED BY <1>1, <1>3, <2>1, <2>2, <2>3 DEF OnceInv, Exclusive
<1>6. CASE c \notin Ledgered
  BY <1>1, <1>2, <1>3, <1>4, <1>6 DEF OnceInv, Exclusive, NodeAcceptsOnce, Busy
<1> QED BY <1>5, <1>6

LEMMA OtherOnce ==
  ASSUME OnceInv,
         \/ \E c \in Conns : Connect(c) \/ Close(c) \/ Refuse(c)
         \/ \E c \in Conns, f \in Frames : ReplayDetected(c, f)
         \/ \E id \in Ids : Revoke(id)
         \/ \E a \in Anchors : DropAnchor(a)
         \/ Tick \/ Restart \/ UNCHANGED vars
  PROVE  Exclusive' /\ NodeAcceptsOnce'
<1>1. CASE \E c \in Conns : Close(c) \/ Refuse(c)
  <2>1. PICK c \in Conns : Close(c) \/ Refuse(c)
    BY <1>1
  <2>2. /\ ledger' = ledger /\ taken' = taken /\ again' = again
        /\ checking' = [checking EXCEPT ![c] = NoFrame]
    BY <2>1 DEF Close, Refuse, history
  <2>3. forgot'[Node] = forgot[Node]
    BY <2>1, ConnsAssumption DEF Close, Refuse, OnceInv, TypeOK
  <2>4. checking'[c] = NoFrame /\ \A d \in Conns : d # c => checking'[d] = checking[d]
    BY <2>2 DEF OnceInv, TypeOK
  <2> QED BY <2>2, <2>3, <2>4 DEF OnceInv, Exclusive, NodeAcceptsOnce, Busy
<1>2. CASE Restart
  <2>1. checking' = [c \in Conns |-> NoFrame] /\ taken' = {} /\ again' = {}
    BY <1>2 DEF Restart
  <2> QED BY <2>1 DEF Exclusive, NodeAcceptsOnce, Busy
<1>3. CASE UNCHANGED <<ledger, forgot, taken, again, checking>>
  BY <1>3 DEF OnceInv, Exclusive, NodeAcceptsOnce, Busy
<1>4. \/ \E c \in Conns : Close(c) \/ Refuse(c)
      \/ Restart
      \/ UNCHANGED <<ledger, forgot, taken, again, checking>>
  BY DEF Connect, ReplayDetected, Revoke, DropAnchor, Tick, vars, history
<1> QED BY <1>1, <1>2, <1>3, <1>4

LEMMA NextOnce == OnceInv /\ [Next]_vars => OnceInv'
  BY NextTypes, RecvOnce, DeliverOnce, OtherOnce DEF OnceInv, Next

LEMMA InitOnce == Init => OnceInv
  BY InitTypes DEF OnceInv, Init, Exclusive, NodeAcceptsOnce, Busy

(* Behind the shared ledger a nonce is delivered once, on however many      *)
(* connections it arrives at the same time, and however often the ledger is *)
(* halved, unless it is a nonce that a halving dropped.                     *)
THEOREM LedgerAcceptsOnce == Spec => []NodeAcceptsOnce
<1>1. OnceInv => NodeAcceptsOnce
  BY DEF OnceInv
<1> QED BY InitOnce, NextOnce, <1>1, PTL DEF Spec

-----------------------------------------------------------------------------
LEMMA DeliverGate ==
  ASSUME GateInv, NEW c \in Conns, Deliver(c)
  PROVE  ClosedIsIdle' /\ OnlyDeliveredRecorded' /\ Vetted' /\ CopiesLag'
<1> DEFINE f == checking[c]
<1>1. /\ UNCHANGED <<roster, revocations, open, anchors, revoked, revoked_since, dropped_since>>
      /\ f # NoFrame /\ Passes(c, f)
      /\ got' = [got EXCEPT ![c] = @ \cup {f}]
      /\ checking' = [checking EXCEPT ![c] = NoFrame]
  BY DEF Deliver, RecordDelivery, Repeats, conn, since
<1>2. /\ got'[c] = got[c] \cup {f}
      /\ \A d \in Conns : d # c => got'[d] = got[d]
  BY <1>1 DEF GateInv, TypeOK
<1>3. /\ seen'[c] \subseteq seen[c] \cup {f.nonce}
      /\ \A d \in Conns : d # c => seen'[d] = seen[d]
  <2>1. CASE f.kind = "breach"
    BY <2>1 DEF Deliver
  <2>2. CASE f.kind # "breach"
    <3>1. PICK kept \in Bounded(seen[c] \cup {f.nonce}, GateCap) :
              seen' = [seen EXCEPT ![c] = kept]
      BY <2>2 DEF Deliver, RecordNonce
    <3> QED BY <3>1, BoundedKeeps DEF GateInv, TypeOK
  <2> QED BY <2>1, <2>2
<1>4. OnlyDeliveredRecorded'
  BY <1>2, <1>3 DEF GateInv, OnlyDeliveredRecorded, GotNonces
<1>5. f.kind # "breach" => f.root \in roster[c] /\ f.ids \cap revocations[c] = {}
  BY <1>1 DEF Passes, GatePasses, Vouched
<1>6. Vetted' /\ CopiesLag'
  BY <1>1, <1>2, <1>5 DEF GateInv, Vetted, CopiesLag
<1>7. ClosedIsIdle'
  BY <1>1 DEF GateInv, TypeOK, ClosedIsIdle
<1> QED BY <1>4, <1>6, <1>7

LEMMA RecvGate ==
  ASSUME GateInv, NEW c \in Conns, NEW f \in Frames, Recv(c, f)
  PROVE  ClosedIsIdle' /\ OnlyDeliveredRecorded' /\ Vetted' /\ CopiesLag'
<1>1. /\ c \in open /\ checking' = [checking EXCEPT ![c] = f]
      /\ UNCHANGED <<open, seen, got, roster, revocations, anchors, revoked,
                     revoked_since, dropped_since>>
  BY DEF Recv, conn, since, history
<1>2. ClosedIsIdle'
  BY <1>1 DEF GateInv, TypeOK, ClosedIsIdle
<1> QED BY <1>1, <1>2 DEF GateInv, OnlyDeliveredRecorded, Vetted, CopiesLag, GotNonces

(* A connection comes up with what the node knows now, in place of the      *)
(* copies that the one before it in this slot had.                          *)
LEMMA ConnectGate ==
  ASSUME GateInv, NEW c \in Conns, Connect(c)
  PROVE  ClosedIsIdle' /\ OnlyDeliveredRecorded' /\ Vetted' /\ CopiesLag'
<1>1. /\ c \notin open /\ open' = open \cup {c}
      /\ UNCHANGED <<seen, got, checking, anchors, revoked, revoked_since, dropped_since>>
      /\ roster'[c] = anchors /\ revocations'[c] = revoked
      /\ \A d \in Conns : d # c => roster'[d] = roster[d] /\ revocations'[d] = revocations[d]
  BY DEF Connect, since, history, GateInv, TypeOK
<1>2. got[c] = {}
  BY <1>1 DEF GateInv, ClosedIsIdle
<1>3. Vetted'
  BY <1>1, <1>2 DEF GateInv, Vetted
<1>4. CopiesLag'
  BY <1>1 DEF GateInv, TypeOK, CopiesLag
<1> QED BY <1>1, <1>3, <1>4 DEF GateInv, ClosedIsIdle, OnlyDeliveredRecorded, GotNonces

LEMMA CloseGate ==
  ASSUME GateInv, NEW c \in Conns, Close(c)
  PROVE  ClosedIsIdle' /\ OnlyDeliveredRecorded' /\ Vetted' /\ CopiesLag'
<1>1. /\ open' = open \ {c} /\ anchors' = anchors /\ revoked' = revoked
      /\ seen'[c] = {} /\ got'[c] = {} /\ checking'[c] = NoFrame
      /\ revoked_since'[c] = {} /\ dropped_since'[c] = {}
      /\ \A d \in Conns : d # c =>
             /\ seen'[d] = seen[d] /\ got'[d] = got[d] /\ checking'[d] = checking[d]
             /\ roster'[d] = roster[d] /\ revocations'[d] = revocations[d]
             /\ revoked_since'[d] = revoked_since[d] /\ dropped_since'[d] = dropped_since[d]
  BY DEF Close, GateInv, TypeOK
<1>2. ClosedIsIdle'
  BY <1>1 DEF GateInv, ClosedIsIdle
<1>3. OnlyDeliveredRecorded'
  BY <1>1 DEF GateInv, OnlyDeliveredRecorded, GotNonces
<1>4. Vetted'
  BY <1>1 DEF GateInv, Vetted
<1>5. CopiesLag'
  BY <1>1 DEF GateInv, TypeOK, CopiesLag
<1> QED BY <1>2, <1>3, <1>4, <1>5

(* What is withdrawn now is noted for every connection that is open.        *)
LEMMA WithdrawGate ==
  ASSUME GateInv,
         \/ \E id \in Ids : Revoke(id)
         \/ \E a \in Anchors : DropAnchor(a)
  PROVE  ClosedIsIdle' /\ OnlyDeliveredRecorded' /\ Vetted' /\ CopiesLag'
<1>1. UNCHANGED <<open, checking, seen, got, roster, revocations>>
  BY DEF Revoke, DropAnchor, conn, history
<1>2. CASE \E id \in Ids : Revoke(id)
  <2>1. PICK id \in Ids : Revoke(id)
    BY <1>2
  <2>2. /\ revoked' = revoked \cup {id} /\ anchors' = anchors /\ dropped_since' = dropped_since
        /\ \A c \in Conns : c \in open => revoked_since'[c] = revoked_since[c] \cup ({id} \ revoked)
        /\ \A c \in Conns : c \notin open => revoked_since'[c] = revoked_since[c]
    BY <2>1 DEF Revoke
  <2>3. CopiesLag'
    BY <1>1, <2>2 DEF GateInv, TypeOK, CopiesLag
  <2> QED BY <1>1, <2>2, <2>3 DEF GateInv, ClosedIsIdle, OnlyDeliveredRecorded, Vetted, GotNonces
<1>3. CASE \E a \in Anchors : DropAnchor(a)
  <2>1. PICK a \in Anchors : DropAnchor(a)
    BY <1>3
  <2>2. /\ anchors' = anchors \ {a} /\ revoked' = revoked /\ revoked_since' = revoked_since
        /\ \A c \in Conns : c \in open => dropped_since'[c] = dropped_since[c] \cup ({a} \cap anchors)
        /\ \A c \in Conns : c \notin open => dropped_since'[c] = dropped_since[c]
    BY <2>1 DEF DropAnchor
  <2>3. CopiesLag'
    BY <1>1, <2>2 DEF GateInv, TypeOK, CopiesLag
  <2> QED BY <1>1, <2>2, <2>3 DEF GateInv, ClosedIsIdle, OnlyDeliveredRecorded, Vetted, GotNonces
<1> QED BY <1>2, <1>3

LEMMA OtherGate ==
  ASSUME GateInv,
         \/ \E c \in Conns : Refuse(c)
         \/ \E c \in Conns, f \in Frames : ReplayDetected(c, f)
         \/ Tick \/ Restart \/ UNCHANGED vars
  PROVE  ClosedIsIdle' /\ OnlyDeliveredRecorded' /\ Vetted' /\ CopiesLag'
<1> DEFINE kept == <<open, seen, got, roster, revocations, anchors, revoked,
                     revoked_since, dropped_since>>
<1>1. CASE \E c \in Conns : Refuse(c)
  <2>1. UNCHANGED kept /\ \E c \in Conns : checking' = [checking EXCEPT ![c] = NoFrame]
    BY <1>1 DEF Refuse, conn, since, history
  <2>2. ClosedIsIdle'
    BY <2>1 DEF GateInv, TypeOK, ClosedIsIdle
  <2> QED BY <2>1, <2>2 DEF GateInv, OnlyDeliveredRecorded, Vetted, CopiesLag, GotNonces
<1>2. CASE Restart
  <2>1. /\ seen' = [c \in Conns |-> {}] /\ got' = [c \in Conns |-> {}] /\ open' = {}
        /\ checking' = [c \in Conns |-> NoFrame]
        /\ revoked_since' = [c \in Conns |-> {}] /\ dropped_since' = [c \in Conns |-> {}]
    BY <1>2 DEF Restart
  <2> QED BY <2>1 DEF ClosedIsIdle, OnlyDeliveredRecorded, Vetted, CopiesLag, GotNonces
<1>3. CASE UNCHANGED kept /\ checking' = checking
  BY <1>3 DEF GateInv, ClosedIsIdle, OnlyDeliveredRecorded, Vetted, CopiesLag, GotNonces
<1>4. \/ \E c \in Conns : Refuse(c)
      \/ Restart
      \/ UNCHANGED kept /\ checking' = checking
  BY DEF ReplayDetected, Tick, vars, conn, since, history
<1> QED BY <1>1, <1>2, <1>3, <1>4

LEMMA NextGate == GateInv /\ [Next]_vars => GateInv'
  BY NextTypes, ConnectGate, CloseGate, RecvGate, DeliverGate, WithdrawGate, OtherGate
     DEF GateInv, Next

LEMMA InitGate == Init => GateInv
  BY InitTypes
     DEF GateInv, Init, ClosedIsIdle, OnlyDeliveredRecorded, Vetted, CopiesLag, GotNonces

(* A gate records no nonce of a frame that it refused: on every connection, *)
(* for every sequence of frames and whatever its set drops.                 *)
THEOREM GateVerifiesThenRecords == Spec => [](TypeOK /\ OnlyDeliveredRecorded)
<1>1. GateInv => TypeOK /\ OnlyDeliveredRecorded
  BY DEF GateInv
<1> QED BY InitGate, NextGate, <1>1, PTL DEF Spec

(* A revocation and a dropped anchor reach every connection that is made     *)
(* later, and the connections that are open are behind by nothing else.      *)
THEOREM WithdrawalReachesNewConnections == Spec => []WithdrawnStaysOut
<1>1. GateInv => WithdrawnStaysOut
  <2> SUFFICES ASSUME GateInv, NEW c \in Conns, NEW f \in got[c], f.kind # "breach"
               PROVE  /\ f.ids \cap revoked \subseteq revoked_since[c]
                      /\ f.root \in anchors \cup dropped_since[c]
    BY DEF WithdrawnStaysOut
  <2>1. c \in open
    BY DEF GateInv, ClosedIsIdle
  <2> QED BY <2>1 DEF GateInv, Vetted, CopiesLag
<1> QED BY InitGate, NextGate, <1>1, PTL DEF Spec

-----------------------------------------------------------------------------
(* A nonce that a gate let through is in its set, or was dropped from it.   *)
Remembers ==
    \A c \in Conns : \A f \in got[c] : f.kind # "breach" => f.nonce \in seen[c] \cup forgot[c]

MemoryInv == TypeOK /\ Remembers /\ GateAcceptsOnce

LEMMA DeliverRemembers ==
  ASSUME MemoryInv, NEW c \in Conns, Deliver(c)
  PROVE  Remembers' /\ GateAcceptsOnce'
<1> DEFINE f == checking[c]
<1>1. /\ got' = [got EXCEPT ![c] = @ \cup {f}] /\ Passes(c, f)
      /\ twice' = IF Repeats(c, f) /\ f.nonce \notin forgot[c]
                  THEN twice \cup {<<c, f>>} ELSE twice
  BY DEF Deliver, RecordDelivery, Repeats
<1>2. got'[c] = got[c] \cup {f} /\ \A d \in Conns : d # c => got'[d] = got[d]
  BY <1>1 DEF MemoryInv, TypeOK
<1>3. CASE f.kind = "breach"
  <2>1. seen' = seen /\ forgot' = forgot
    BY <1>3 DEF Deliver
  <2>2. Remembers'
    BY <2>1, <1>2, <1>3 DEF MemoryInv, Remembers
  <2>3. \A d \in twice' : d \in twice \/ d = <<c, f>>
    BY <1>1
  <2>4. GateAcceptsOnce'
    BY <2>3, <1>3 DEF MemoryInv, GateAcceptsOnce
  <2> QED BY <2>2, <2>4
<1>4. CASE f.kind # "breach"
  <2>1. PICK kept \in Bounded(seen[c] \cup {f.nonce}, GateCap) :
            /\ seen' = [seen EXCEPT ![c] = kept]
            /\ Forget(c, (seen[c] \cup {f.nonce}) \ kept)
    BY <1>4 DEF Deliver, RecordNonce
  <2>2. /\ seen'[c] = kept /\ \A d \in Conns : d # c => seen'[d] = seen[d]
        /\ forgot'[c] = forgot[c] \cup ((seen[c] \cup {f.nonce}) \ kept)
        /\ \A d \in Conns : d # c => forgot'[d] = forgot[d]
    <3>1. (seen[c] \cup {f.nonce}) \ kept \in SUBSET Nonces
      BY FrameType DEF Deliver, MemoryInv, TypeOK
    <3> QED BY <2>1, <3>1, ForgetType DEF MemoryInv, TypeOK
  <2>3. Remembers'
    <3> SUFFICES ASSUME NEW d \in Conns, NEW g \in got'[d], g.kind # "breach"
                 PROVE  g.nonce \in seen'[d] \cup forgot'[d]
      BY DEF Remembers
    <3>1. CASE d # c
      BY <3>1, <1>2, <2>2 DEF MemoryInv, Remembers
    <3>2. CASE d = c
      <4>1. g.nonce \in seen[c] \cup forgot[c] \cup {f.nonce}
        BY <3>2, <1>2 DEF MemoryInv, Remembers
      <4> QED BY <4>1, <3>2, <2>2
    <3> QED BY <3>1, <3>2
  <2>4. ~(Repeats(c, f) /\ f.nonce \notin forgot[c])
    <3> SUFFICES ASSUME NEW g \in got[c], g.nonce = f.nonce, g.kind # "breach",
                        f.nonce \notin forgot[c]
                 PROVE  FALSE
      BY <1>4 DEF Repeats
    <3>1. f.nonce \in seen[c]
      BY DEF MemoryInv, Remembers
    <3> QED BY <3>1, <1>1, <1>4 DEF Passes, GatePasses
  <2>5. GateAcceptsOnce'
    BY <1>1, <2>4 DEF MemoryInv, GateAcceptsOnce
  <2> QED BY <2>3, <2>5
<1> QED BY <1>3, <1>4

LEMMA OtherRemembers ==
  ASSUME MemoryInv, [Next]_vars, ~\E c \in Conns : Deliver(c)
  PROVE  Remembers' /\ GateAcceptsOnce'
<1> DEFINE forgets(c) == forgot'[c] = forgot[c]
<1>1. CASE \E c \in Conns : Close(c)
  <2>1. PICK c \in Conns : Close(c)
    BY <1>1
  <2>2. /\ got'[c] = {}
        /\ \A d \in Conns : d # c => got'[d] = got[d] /\ seen'[d] = seen[d] /\ forgets(d)
        /\ twice' = {d \in twice : d[1] # c}
    BY <2>1 DEF Close, MemoryInv, TypeOK
  <2> QED BY <2>2 DEF MemoryInv, Remembers, GateAcceptsOnce
<1>2. CASE Restart
  <2>1. got' = [c \in Conns |-> {}] /\ twice' = {}
    BY <1>2 DEF Restart
  <2> QED BY <2>1 DEF Remembers, GateAcceptsOnce
<1>3. CASE UNCHANGED <<seen, got, twice>> /\ \A c \in Conns : forgets(c)
  BY <1>3 DEF MemoryInv, Remembers, GateAcceptsOnce
<1>4. ASSUME NEW c \in Conns, NEW f \in Frames, Recv(c, f)
      PROVE  UNCHANGED <<seen, got, twice>> /\ \A d \in Conns : forgets(d)
  <2>1. CASE UNCHANGED <<ledger, forgot>>
    BY <2>1, <1>4 DEF Recv, history
  <2>2. CASE Observe(f)
    <3>1. PICK kept \in Bounded(ledger \cup {f.nonce}, LedgerCap) :
              Forget(Node, (ledger \cup {f.nonce}) \ kept)
      BY <2>2 DEF Observe
    <3>2. (ledger \cup {f.nonce}) \ kept \in SUBSET Nonces
      BY FrameType DEF MemoryInv, TypeOK
    <3>3. \A d \in Conns : forgets(d)
      BY <3>1, <3>2, ForgetType, ConnsAssumption DEF MemoryInv, TypeOK
    <3> QED BY <3>3, <1>4 DEF Recv, history
  <2> QED BY <2>1, <2>2, <1>4 DEF Recv
<1>5. \/ \E c \in Conns : Close(c)
      \/ \E c \in Conns, f \in Frames : Recv(c, f)
      \/ Restart
      \/ UNCHANGED <<seen, got, twice, forgot>>
  BY DEF Next, Connect, Refuse, ReplayDetected, Revoke, DropAnchor, Tick, vars, history
<1> QED BY <1>1, <1>2, <1>3, <1>4, <1>5

(* A gate lets no nonce through a second time, on any carrier, except one    *)
(* that its set had dropped.                                                *)
THEOREM GateOnce == Spec => []GateAcceptsOnce
<1>1. Init => MemoryInv
  BY InitTypes DEF Init, MemoryInv, Remembers, GateAcceptsOnce
<1>2. MemoryInv /\ [Next]_vars => MemoryInv'
  BY NextTypes, DeliverRemembers, OtherRemembers DEF MemoryInv
<1>3. MemoryInv => GateAcceptsOnce
  BY DEF MemoryInv
<1> QED BY <1>1, <1>2, <1>3, PTL DEF Spec
=============================================================================
