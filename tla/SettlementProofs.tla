---------------------------- MODULE SettlementProofs ---------------------------
(***************************************************************************)
(* The single-writer claim of the hub ring for any number of hubs, frames, *)
(* duplicates and reorderings, and any crashes but the owner's.  Everything*)
(* turns on the owner: it must fold each frame it emits, so its two replay *)
(* sets must hold nothing but what it emitted earlier (OwnFrames), and     *)
(* what it emitted earlier left from an earlier status (LeftBehind).       *)
(*                                                                         *)
(* HubsInStep adds the hubs that follow it over a carrier that keeps the   *)
(* order: each has folded a prefix of what was sent (Reached).             *)
(*                                                                         *)
(* The merge of finalizations rests on the same owner: what a hub records   *)
(* as settled is what the owner has settled, which no later step undoes.    *)
(*                                                                         *)
(* MeshIsRegister puts the mesh as a whole: it implements OrderRegister.     *)
(***************************************************************************)
EXTENDS Settlement, FiniteSetTheorems, TLAPS

o == first_owner

Types ==
    /\ up \subseteq Hubs
    /\ status \in [Hubs -> Statuses]
    /\ DOMAIN applied = Hubs /\ applied = [h \in Hubs |-> applied[h]]
    /\ DOMAIN spent = Hubs /\ spent = [h \in Hubs |-> spent[h]]
    /\ sent \in Seq(Frame)

Lawful == \A k \in 1 .. Len(sent) : sent[k].by = o /\ sent[k].to \in allowed_next(sent[k].from)

OwnFrames ==
    /\ applied[o] = {event_id(sent[k]) : k \in 1 .. Len(sent)}
    /\ \A n \in spent[o] : \E k \in 1 .. Len(sent) : n = nonce(sent[k])

LeftBehind ==
    \A k \in 1 .. Len(sent) :
        /\ Ordinal(sent[k].from) < Ordinal(status[o])
        /\ Terminal(sent[k].to) => status[o] = sent[k].to

Emitted == \A h \in Hubs : Terminal(status[h]) => \E k \in 1 .. Len(sent) : status[h] = sent[k].to

Ruled == Lawful /\ OwnFrames /\ LeftBehind /\ Emitted

OwnerInv == Types /\ (o \in up => Ruled)

LEMMA OwnerIsHub == o \in Hubs /\ \A g \in Hubs : HrwRank[g] <= HrwRank[o]
  BY RankAssumption DEF o, first_owner

LEMMA OnlyOwner ==
  ASSUME up \subseteq Hubs, o \in up, NEW h \in Hubs, is_owner(h)
  PROVE  h = o
<1>1. HrwRank[o] <= HrwRank[h] /\ HrwRank[h] <= HrwRank[o]
  BY OwnerIsHub DEF is_owner
<1>2. HrwRank[o] \in Nat /\ HrwRank[h] \in Nat
  BY RankAssumption, OwnerIsHub
<1> QED BY <1>1, <1>2, RankAssumption, OwnerIsHub

LEMMA OrdinalType == \A s \in Statuses : Ordinal(s) \in 0 .. 8
  BY DEF Statuses, Ordinal

(* The Law only moves forward, and never out of a terminal status.          *)
LEMMA LawAdvances ==
  \A s \in Statuses : \A t \in allowed_next(s) :
      t \in Statuses /\ Ordinal(s) < Ordinal(t) /\ ~Terminal(s)
  BY DEF Statuses, allowed_next, Ordinal, Terminal

(* intake.rs:189-191, for one order: two lawful transitions that leave from *)
(* different statuses get different nonces.                                 *)
LEMMA LawfulNonces ==
  ASSUME NEW f \in Frame, NEW g \in Frame,
         f.to \in allowed_next(f.from), g.to \in allowed_next(g.from),
         nonce(f) = nonce(g)
  PROVE  f.from = g.from
<1> DEFINE low(x) == Ordinal(x.to) % 8
           mid(x) == (Ordinal(x.from) + Ordinal(x.to) \div 8) % 2
           top(x) == Ordinal(x.from) \div 2
<1>1. low(f) = low(g) /\ mid(f) = mid(g) /\ top(f) = top(g)
  BY DEF nonce
<1>2. ASSUME NEW x \in Frame, x.to \in allowed_next(x.from)
      PROVE  \/ x.from = "Pending" /\ top(x) = 0 /\ low(x) \in {1, 6, 7}
             \/ x.from = "Confirmed" /\ top(x) = 0 /\ low(x) \in {2, 4}
             \/ x.from = "Preparing" /\ top(x) = 1 /\ low(x) = 3
             \/ x.from = "Ready" /\ top(x) = 1 /\ low(x) \in {4, 0}
             \/ x.from = "InDelivery" /\ top(x) = 2
  <2>1. x.from \in Statuses
    BY DEF Frame
  <2>2. CASE x.from = "Pending"
    BY <1>2, <2>2 DEF allowed_next, Ordinal
  <2>3. CASE x.from = "Confirmed"
    BY <1>2, <2>3 DEF allowed_next, Ordinal
  <2>4. CASE x.from = "Preparing"
    BY <1>2, <2>4 DEF allowed_next, Ordinal
  <2>5. CASE x.from = "Ready"
    BY <1>2, <2>5 DEF allowed_next, Ordinal
  <2>6. CASE x.from = "InDelivery"
    BY <1>2, <2>6 DEF allowed_next, Ordinal
  <2>7. x.from \in {"Pending", "Confirmed", "Preparing", "Ready", "InDelivery"}
    BY <1>2, <2>1 DEF Statuses, allowed_next
  <2> QED BY <2>2, <2>3, <2>4, <2>5, <2>6, <2>7
<1> HIDE DEF low, mid, top
<1> QED BY <1>1, <1>2

LEMMA InitOwner == Init => OwnerInv
<1> SUFFICES ASSUME Init PROVE OwnerInv
  OBVIOUS
<1>1. Types
  BY DEF Init, Types, Statuses
<1>2. Len(sent) = 0 /\ applied[o] = {} /\ spent[o] = {}
  BY OwnerIsHub DEF Init
<1>3. Lawful /\ OwnFrames /\ LeftBehind
  BY <1>2 DEF Lawful, OwnFrames, LeftBehind
<1>4. Emitted
  BY DEF Init, Emitted, Terminal
<1> QED BY <1>1, <1>3, <1>4 DEF OwnerInv, Ruled

LEMMA FoldTypes ==
  ASSUME Types, NEW h \in Hubs, NEW f \in Frame, admit_and_fold(h, f)
  PROVE  /\ status' \in [Hubs -> Statuses]
         /\ DOMAIN applied' = Hubs /\ applied' = [g \in Hubs |-> applied'[g]]
         /\ DOMAIN spent' = Hubs /\ spent' = [g \in Hubs |-> spent'[g]]
<1>1. f.to \in Statuses
  BY DEF Frame
<1>2. status' = status \/ status' = [status EXCEPT ![h] = f.to]
  BY DEF admit_and_fold
<1>3. status' \in [Hubs -> Statuses]
  BY <1>1, <1>2 DEF Types
<1>4. applied' = applied \/ applied' = [applied EXCEPT ![h] = @ \cup {event_id(f)}]
  BY DEF admit_and_fold
<1>5. DOMAIN applied' = Hubs /\ applied' = [g \in Hubs |-> applied'[g]]
  BY <1>4 DEF Types
<1>6. spent' = spent \/ spent' = [spent EXCEPT ![h] = @ \cup {nonce(f)}]
  BY DEF admit_and_fold
<1>7. DOMAIN spent' = Hubs /\ spent' = [g \in Hubs |-> spent'[g]]
  BY <1>6 DEF Types
<1> QED BY <1>3, <1>5, <1>7

(* The owner's own gates and the Law let through what it emits.             *)
LEMMA OwnerFoldsOwn ==
  ASSUME OwnerInv, o \in up, NEW h \in Hubs, NEW to \in Statuses, Emit(h, to),
         NEW f, f = [from |-> status[h], to |-> to, by |-> h]
  PROVE  /\ h = o /\ f \in Frame /\ event_id(f) \notin applied[o] /\ nonce(f) \notin spent[o]
         /\ status' = [status EXCEPT ![o] = to]
<1>1. is_owner(h) /\ to \in allowed_next(status[h]) /\ admit_and_fold(h, f)
  BY DEF Emit
<1>2. h = o /\ Ruled
  BY <1>1, OnlyOwner DEF OwnerInv, Types
<1>3. f \in Frame /\ f.from = status[o] /\ f.to = to
  BY <1>2 DEF OwnerInv, Types, Frame
<1>4. Ordinal(status[o]) \in Nat
  BY OwnerIsHub, OrdinalType DEF OwnerInv, Types
<1>5. \A k \in 1 .. Len(sent) : sent[k] \in Frame /\ sent[k].from # status[o]
  <2> SUFFICES ASSUME NEW k \in 1 .. Len(sent) PROVE sent[k] \in Frame /\ sent[k].from # status[o]
    OBVIOUS
  <2>1. Ordinal(sent[k].from) < Ordinal(status[o])
    BY <1>2 DEF Ruled, LeftBehind
  <2> QED BY <2>1, <1>4 DEF OwnerInv, Types
<1>6. event_id(f) \notin applied[o]
  BY <1>2, <1>3, <1>5 DEF Ruled, OwnFrames, event_id
<1>7. nonce(f) \notin spent[o]
  <2> SUFFICES ASSUME NEW k \in 1 .. Len(sent), nonce(f) = nonce(sent[k]) PROVE FALSE
    BY <1>2 DEF Ruled, OwnFrames
  <2>1. sent[k].from = f.from
    BY <1>1, <1>2, <1>3, <1>5, LawfulNonces DEF Ruled, Lawful
  <2> QED BY <2>1, <1>3, <1>5
<1>8. status' = [status EXCEPT ![o] = to]
  BY <1>1, <1>2, <1>3, <1>6, <1>7 DEF admit_and_fold, DodAdmits, WirePasses
<1> QED BY <1>2, <1>3, <1>6, <1>7, <1>8

LEMMA EmitKeepsOwner ==
  ASSUME OwnerInv, NEW h \in Hubs, NEW to \in Statuses, Emit(h, to)
  PROVE  OwnerInv'
<1> DEFINE f == [from |-> status[h], to |-> to, by |-> h]
           n == Len(sent) + 1
<1>1. /\ is_owner(h) /\ to \in allowed_next(status[h]) /\ sent' = Append(sent, f)
      /\ admit_and_fold(h, f) /\ up' = up
  BY DEF Emit
<1>2. f \in Frame /\ f.from = status[h] /\ f.to = to /\ f.by = h
  BY DEF OwnerInv, Types, Frame
<1>3. /\ Len(sent) \in Nat /\ Len(sent') = n /\ sent'[n] = f
      /\ \A k \in 1 .. Len(sent) : sent'[k] = sent[k]
      /\ sent' \in Seq(Frame)
  BY <1>1, <1>2 DEF OwnerInv, Types
<1>4. Types'
  BY <1>1, <1>2, <1>3, FoldTypes DEF OwnerInv, Types
<1>5. ASSUME o \in up PROVE Ruled'
  <2>1. h = o /\ Ruled
    BY <1>1, <1>5, OnlyOwner DEF OwnerInv, Types
  <2>2. status[o] \in Statuses /\ Ordinal(status[o]) \in Nat /\ Ordinal(to) \in Nat
    BY <2>1, OwnerIsHub, OrdinalType DEF OwnerInv, Types
  <2>3. Ordinal(status[o]) < Ordinal(to) /\ ~Terminal(status[o])
    BY <1>1, <2>1, <2>2, LawAdvances
  <2>4. ASSUME NEW k \in 1 .. Len(sent) PROVE sent[k] \in Frame /\ Ordinal(sent[k].from) \in Nat
    <3>1. sent[k] \in Frame
      BY DEF OwnerInv, Types
    <3>2. sent[k].from \in Statuses
      BY <3>1 DEF Frame
    <3>3. Ordinal(sent[k].from) \in 0 .. 8
      BY <3>2, OrdinalType
    <3> QED BY <3>1, <3>3
  <2>5. event_id(f) \notin applied[o] /\ nonce(f) \notin spent[o]
    BY <1>5, OwnerFoldsOwn
  <2>7. /\ applied'[o] = applied[o] \cup {event_id(f)}
        /\ spent'[o] = spent[o] \cup {nonce(f)}
        /\ status'[o] = to /\ \A g \in Hubs : g # o => status'[g] = status[g]
    BY <1>1, <1>2, <2>1, <2>5, OwnerIsHub
       DEF OwnerInv, Types, admit_and_fold, DodAdmits, WirePasses
  <2>8. \A k \in 1 .. n : k \in 1 .. Len(sent) \/ k = n
    BY <1>3
  <2>9. Lawful'
    BY <1>1, <1>2, <1>3, <2>1, <2>8 DEF Ruled, Lawful, o, first_owner
  <2>10. OwnFrames'
    <3>1. applied'[o] = {event_id(sent'[k]) : k \in 1 .. Len(sent')}
      BY <1>3, <2>1, <2>7, <2>8 DEF Ruled, OwnFrames, event_id
    <3>2. \A m \in spent'[o] : \E k \in 1 .. Len(sent') : m = nonce(sent'[k])
      <4> SUFFICES ASSUME NEW m \in spent'[o]
                   PROVE  \E k \in 1 .. Len(sent') : m = nonce(sent'[k])
        OBVIOUS
      <4>1. CASE m = nonce(f)
        BY <4>1, <1>3
      <4>2. CASE m \in spent[o]
        <5>1. PICK k \in 1 .. Len(sent) : m = nonce(sent[k])
          BY <4>2, <2>1 DEF Ruled, OwnFrames
        <5>2. k \in 1 .. Len(sent') /\ sent'[k] = sent[k]
          BY <1>3
        <5> QED BY <5>1, <5>2
      <4> QED BY <4>1, <4>2, <2>7
    <3> QED BY <3>1, <3>2 DEF OwnFrames, o, first_owner, event_id, nonce
  <2>11. LeftBehind'
    <3> SUFFICES ASSUME NEW k \in 1 .. n
                 PROVE  /\ Ordinal(sent'[k].from) < Ordinal(to)
                        /\ Terminal(sent'[k].to) => to = sent'[k].to
      BY <1>3, <2>7 DEF LeftBehind, o, first_owner, Ordinal, Terminal
    <3>1. CASE k = n
      BY <3>1, <1>2, <1>3, <2>1, <2>3
    <3>2. CASE k \in 1 .. Len(sent)
      <4>1. /\ Ordinal(sent[k].from) < Ordinal(status[o])
            /\ Terminal(sent[k].to) => status[o] = sent[k].to
        BY <3>2, <2>1 DEF Ruled, LeftBehind
      <4>2. ~Terminal(sent[k].to)
        BY <4>1, <2>3
      <4>3. Ordinal(sent[k].from) < Ordinal(to)
        BY <4>1, <2>2, <2>3, <2>4, <3>2
      <4> QED BY <4>2, <4>3, <1>3, <3>2
    <3> QED BY <3>1, <3>2, <2>8
  <2>12. Emitted'
    <3> SUFFICES ASSUME NEW g \in Hubs, Terminal(status'[g])
                 PROVE  \E k \in 1 .. Len(sent') : status'[g] = sent'[k].to
      BY DEF Emitted, Terminal
    <3>1. CASE g = o
      BY <3>1, <1>2, <1>3, <2>7
    <3>2. CASE g # o
      <4>1. PICK k \in 1 .. Len(sent) : status[g] = sent[k].to
        BY <3>2, <2>1, <2>7 DEF Ruled, Emitted
      <4> QED BY <4>1, <3>2, <1>3, <2>7
    <3> QED BY <3>1, <3>2
  <2> QED BY <2>9, <2>10, <2>11, <2>12 DEF Ruled
<1>6. o' = o
  BY DEF o, first_owner
<1> QED BY <1>1, <1>4, <1>5, <1>6 DEF OwnerInv

LEMMA ReceiveKeepsOwner ==
  ASSUME OwnerInv, NEW h \in Hubs, NEW i \in 1 .. Len(sent), Receive(h, i)
  PROVE  OwnerInv'
<1> DEFINE f == sent[i]
<1>1. admit_and_fold(h, f) /\ up' = up /\ sent' = sent /\ o' = o
  BY DEF Receive, o, first_owner
<1>2. f \in Frame
  BY DEF OwnerInv, Types
<1>3. Types'
  BY <1>1, <1>2, FoldTypes DEF OwnerInv, Types
<1>4. ASSUME o \in up PROVE Ruled'
  <2>1. Ruled
    BY <1>4 DEF OwnerInv
  <2>2. h = o => ~DodAdmits(h, f)
    BY <2>1 DEF Ruled, OwnFrames, DodAdmits
  <2>3. applied'[o] = applied[o] /\ spent'[o] = spent[o] /\ status'[o] = status[o]
    BY <1>1, <2>2, OwnerIsHub DEF OwnerInv, Types, admit_and_fold
  <2>4. \A g \in Hubs : status'[g] = status[g] \/ status'[g] = f.to
    BY <1>1 DEF OwnerInv, Types, admit_and_fold
  <2>5. Lawful'
    BY <1>1, <2>1 DEF Ruled, Lawful
  <2>6. OwnFrames'
    <3>1. applied'[o] = {event_id(sent[k]) : k \in 1 .. Len(sent)}
      BY <2>1, <2>3 DEF Ruled, OwnFrames
    <3>2. \A m \in spent'[o] : \E k \in 1 .. Len(sent) : m = nonce(sent[k])
      BY <2>1, <2>3 DEF Ruled, OwnFrames
    <3> QED BY <1>1, <3>1, <3>2 DEF OwnFrames
  <2>7. LeftBehind'
    <3>1. \A k \in 1 .. Len(sent) : /\ Ordinal(sent[k].from) < Ordinal(status'[o])
                                    /\ Terminal(sent[k].to) => status'[o] = sent[k].to
      BY <2>1, <2>3 DEF Ruled, LeftBehind
    <3> QED BY <1>1, <3>1 DEF LeftBehind
  <2>8. Emitted'
    <3> SUFFICES ASSUME NEW g \in Hubs, Terminal(status'[g])
                 PROVE  \E k \in 1 .. Len(sent) : status'[g] = sent[k].to
      BY <1>1 DEF Emitted, Terminal
    <3> QED BY <2>1, <2>4 DEF Ruled, Emitted
  <2> QED BY <2>5, <2>6, <2>7, <2>8 DEF Ruled
<1> QED BY <1>1, <1>3, <1>4 DEF OwnerInv

LEMMA NextOwner == OwnerInv /\ [Next]_vars => OwnerInv'
<1> SUFFICES ASSUME OwnerInv, [Next]_vars PROVE OwnerInv'
  OBVIOUS
<1>1. CASE UNCHANGED <<status, applied, spent, sent>> /\ up' \subseteq up
  <2>1. o' = o
    BY DEF o, first_owner
  <2>2. Types'
    BY <1>1 DEF OwnerInv, Types
  <2>3. Ruled => Ruled'
    <3>1. (Lawful <=> Lawful') /\ (LeftBehind <=> LeftBehind') /\ (Emitted <=> Emitted')
      BY <1>1, <2>1 DEF Lawful, LeftBehind, Emitted
    <3>2. OwnFrames <=> OwnFrames'
      BY <1>1, <2>1 DEF OwnFrames
    <3> QED BY <3>1, <3>2 DEF Ruled
  <2> QED BY <1>1, <2>1, <2>2, <2>3 DEF OwnerInv
<1>2. CASE UNCHANGED vars
  BY <1>1, <1>2 DEF vars
<1>3. CASE \E h \in Hubs : Crash(h)
  BY <1>1, <1>3 DEF Crash
<1>4. CASE \E h \in Hubs, to \in Statuses : Emit(h, to)
  BY <1>4, EmitKeepsOwner
<1>5. CASE \E h \in Hubs : \E i \in 1 .. Len(sent) : Receive(h, i)
  BY <1>5, ReceiveKeepsOwner
<1> QED BY <1>2, <1>3, <1>4, <1>5 DEF Next

(* While its owner is up, an order is settled nowhere in a way the owner    *)
(* has not settled it, whatever is duplicated, delayed or reordered.        *)
THEOREM SingleWriter == Spec => []OwnerDecides
<1>1. OwnerInv => OwnerDecides
  BY DEF OwnerInv, Ruled, LeftBehind, Emitted, OwnerDecides, o
<1> QED BY InitOwner, NextOwner, <1>1, PTL DEF Spec

-----------------------------------------------------------------------------
(* The mesh implements OrderRegister: the owner's emissions are its writes,  *)
(* what another hub folds while the owner is up follows it, and what a hub   *)
(* folds afterwards, from whoever takes over, is a fork.                    *)
LEMMA HeldMore ==
  ASSUME Types, NEW f \in Frame, sent' = Append(sent, f)
  PROVE  HeldByOwner' = IF f.by = o THEN HeldByOwner \cup {f.to} ELSE HeldByOwner
<1>1. PICK n \in Nat : n = Len(sent)
  BY DEF Types
<1>2. /\ DOMAIN sent = 1 .. n /\ DOMAIN sent' = 1 .. n + 1
      /\ \A k \in 1 .. n : sent'[k] = sent[k]
      /\ sent'[n + 1] = f
  BY <1>1 DEF Types
<1>3. \A k \in 1 .. n + 1 : k \in 1 .. n \/ k = n + 1
  OBVIOUS
<1>4. HeldByOwner' = {"Pending"} \cup {sent'[k].to : k \in {i \in 1 .. n + 1 : sent'[i].by = o}}
  BY <1>2 DEF HeldByOwner, o, first_owner
<1>5. HeldByOwner = {"Pending"} \cup {sent[k].to : k \in {i \in 1 .. n : sent[i].by = o}}
  BY <1>2 DEF HeldByOwner, o
<1>6. ASSUME NEW s PROVE s \in HeldByOwner' <=> s \in HeldByOwner \/ (f.by = o /\ s = f.to)
  BY <1>2, <1>3, <1>4, <1>5
<1> QED BY <1>6

LEMMA LawIs ==
  ASSUME Types, NEW h \in Hubs, NEW s \in allowed_next(status[h])
  PROVE  /\ s \in [t \in Statuses |-> allowed_next(t)][status[h]]
         /\ s \in UNION {[u \in Statuses |-> allowed_next(u)][t] : t \in Statuses}
<1>1. status[h] \in Statuses
  BY DEF Types
<1> QED BY <1>1

LEMMA EmitImplements ==
  ASSUME OwnerInv, NEW h \in Hubs, NEW to \in Statuses, Emit(h, to)
  PROVE  [Register!Next]_(Register!vars)
<1> DEFINE f == [from |-> status[h], to |-> to, by |-> h]
<1>1. /\ is_owner(h) /\ to \in allowed_next(status[h]) /\ sent' = Append(sent, f)
      /\ admit_and_fold(h, f) /\ up' = up /\ o' = o /\ h \in up
  BY DEF Emit, is_owner, o, first_owner
<1>2. f \in Frame /\ f.to = to /\ f.by = h
  BY DEF OwnerInv, Types, Frame
<1>3. HeldByOwner' = IF h = o THEN HeldByOwner \cup {to} ELSE HeldByOwner
  BY <1>1, <1>2, HeldMore DEF OwnerInv
<1>4. CASE o \in up
  <2>1. h = o /\ status' = [status EXCEPT ![o] = to]
    BY <1>4, OwnerFoldsOwn
  <2>2. Register!Write(to)
    BY <1>1, <1>3, <1>4, <2>1, LawIs DEF Register!Write, o, OwnerInv
  <2> QED BY <1>1, <2>2, LawIs DEF Register!Next, OwnerInv
<1>5. CASE o \notin up
  <2>1. h # o /\ HeldByOwner' = HeldByOwner
    BY <1>1, <1>3, <1>5
  <2>2. status' = status \/ status' = [status EXCEPT ![h] = to]
    BY <1>1, <1>2 DEF admit_and_fold
  <2>3. CASE status' = status
    BY <1>1, <2>1, <2>3 DEF Register!vars, o
  <2>4. CASE status' = [status EXCEPT ![h] = to]
    <3>1. Register!Fork(h)
      BY <1>1, <1>5, <2>1, <2>4, LawIs DEF Register!Fork, o, OwnerInv
    <3> QED BY <3>1 DEF Register!Next
  <2> QED BY <2>2, <2>3, <2>4
<1> QED BY <1>4, <1>5

LEMMA ReceiveImplements ==
  ASSUME OwnerInv, NEW h \in Hubs, NEW i \in 1 .. Len(sent), Receive(h, i)
  PROVE  [Register!Next]_(Register!vars)
<1> DEFINE f == sent[i]
<1>1. /\ h \in up /\ admit_and_fold(h, f) /\ up' = up /\ sent' = sent /\ o' = o
  BY DEF Receive, o, first_owner
<1>2. HeldByOwner' = HeldByOwner
  BY <1>1 DEF HeldByOwner, o
<1>3. CASE status' = status
  BY <1>1, <1>2, <1>3 DEF Register!vars, o
<1>4. CASE status' # status
  <2>1. /\ status' = [status EXCEPT ![h] = f.to] /\ f.to \in allowed_next(status[h])
        /\ DodAdmits(h, f)
    BY <1>1, <1>4 DEF admit_and_fold
  <2>2. CASE o \in up
    <3>1. h # o
      BY <2>1, <2>2 DEF OwnerInv, Ruled, OwnFrames, DodAdmits
    <3>2. i \in DOMAIN sent /\ sent[i].by = o
      BY <2>2 DEF OwnerInv, Ruled, Lawful, Types
    <3>3. f.to \in HeldByOwner
      BY <3>2 DEF HeldByOwner, o
    <3>4. Register!Follow(h)
      BY <1>1, <1>2, <2>1, <2>2, <3>1, <3>3, LawIs DEF Register!Follow, o, OwnerInv
    <3> QED BY <3>4 DEF Register!Next
  <2>3. CASE o \notin up
    <3>1. Register!Fork(h)
      BY <1>1, <1>2, <2>1, <2>3, LawIs DEF Register!Fork, o, OwnerInv
    <3> QED BY <3>1 DEF Register!Next
  <2> QED BY <2>2, <2>3
<1> QED BY <1>3, <1>4

LEMMA StepImplements ==
  ASSUME OwnerInv, [Next]_vars
  PROVE  [Register!Next]_(Register!vars)
<1>1. ASSUME NEW h \in Hubs, Crash(h) PROVE [Register!Next]_(Register!vars)
  <2>1. up' = up \ {h} /\ status' = status /\ sent' = sent /\ o' = o
    BY <1>1 DEF Crash, o, first_owner
  <2>2. HeldByOwner' = HeldByOwner
    BY <2>1 DEF HeldByOwner, o
  <2>3. CASE h = o
    <3>1. o \in up /\ o \notin up'
      BY <1>1, <2>1, <2>3 DEF Crash
    <3>2. Register!Lose
      BY <2>1, <2>2, <3>1 DEF Register!Lose, o
    <3> QED BY <3>2 DEF Register!Next
  <2>4. CASE h # o
    BY <2>1, <2>2, <2>4 DEF Register!vars, o
  <2> QED BY <2>3, <2>4
<1>2. CASE UNCHANGED vars
  BY <1>2 DEF vars, Register!vars, HeldByOwner, first_owner
<1> QED BY <1>1, <1>2, EmitImplements, ReceiveImplements DEF Next

(* hub_ring.rs:3-4: any mesh, over any carrier, through any crashes, is the   *)
(* single-writer register that the hub ring promises.                       *)
THEOREM MeshIsRegister == Spec => IsRegister
<1>1. Init => Register!Init
  <2> SUFFICES ASSUME Init PROVE Register!Init
    OBVIOUS
  <2>1. HeldByOwner = {"Pending"}
    BY DEF Init, HeldByOwner
  <2> QED BY <2>1, OwnerIsHub DEF Init, Register!Init, o
<1> QED BY <1>1, InitOwner, NextOwner, StepImplements, PTL DEF Spec, IsRegister, Register!Spec

-----------------------------------------------------------------------------
(* InStep.  Over a carrier that keeps the order, what has reached a hub is  *)
(* a prefix of what was sent, and its three stateful filters hold just that *)
(* prefix.  The frames form a chain, so a frame in its turn is new to each. *)
Reached(h, n) ==
    /\ arrived[h] = 1 .. n
    /\ status[h] = IF n = 0 THEN "Pending" ELSE sent[n].to
    /\ applied[h] = {event_id(sent[k]) : k \in 1 .. n}
    /\ \A m \in spent[h] : \E k \in 1 .. n : m = nonce(sent[k])

Chained == \A k \in 1 .. Len(sent) : sent[k].from = IF k = 1 THEN "Pending" ELSE sent[k - 1].to

Ascending ==
    \A j, k \in 1 .. Len(sent) : j < k => Ordinal(sent[j].from) < Ordinal(sent[k].from)

Following ==
    /\ Chained /\ Ascending /\ Reached(o, Len(sent))
    /\ \A h \in Hubs : \E n \in 0 .. Len(sent) : Reached(h, n)

FollowInv ==
    /\ OwnerInv
    /\ DOMAIN arrived = Hubs /\ arrived = [h \in Hubs |-> arrived[h]]
    /\ fifo /\ o \in up => Following

LEMMA OrdinalNat == \A f \in Frame : Ordinal(f.from) \in Nat /\ Ordinal(f.to) \in Nat
<1> SUFFICES ASSUME NEW f \in Frame PROVE Ordinal(f.from) \in 0 .. 8 /\ Ordinal(f.to) \in 0 .. 8
  OBVIOUS
<1>1. f.from \in Statuses /\ f.to \in Statuses
  BY DEF Frame
<1> QED BY <1>1, OrdinalType

(* A lawful frame that leaves from a later status than all that reached a   *)
(* hub is new to its gates.                                                 *)
LEMMA LaterIsNew ==
  ASSUME Types, Lawful, NEW h \in Hubs, NEW n \in 0 .. Len(sent), Reached(h, n),
         NEW f \in Frame, f.to \in allowed_next(f.from),
         \A k \in 1 .. n : Ordinal(sent[k].from) < Ordinal(f.from)
  PROVE  DodAdmits(h, f) /\ WirePasses(h, f)
<1>1. \A k \in 1 .. n : k \in 1 .. Len(sent) /\ sent[k] \in Frame /\ Ordinal(sent[k].from) \in Nat
  BY OrdinalNat DEF Types
<1>2. \A k \in 1 .. n : sent[k].from # f.from
  BY <1>1
<1>3. DodAdmits(h, f)
  BY <1>2 DEF Reached, DodAdmits, event_id
<1>4. WirePasses(h, f)
  BY <1>1, <1>2, LawfulNonces DEF Reached, WirePasses, Lawful
<1> QED BY <1>3, <1>4

(* Such a frame, if it leaves from the hub's status, is folded.             *)
LEMMA FoldsNext ==
  ASSUME Types, NEW h \in Hubs, NEW n \in Nat, Reached(h, n), DOMAIN arrived = Hubs,
         NEW f \in Frame, DodAdmits(h, f), WirePasses(h, f), f.to \in allowed_next(status[h]),
         admit_and_fold(h, f), arrived' = [arrived EXCEPT ![h] = @ \cup {n + 1}],
         sent'[n + 1] = f, \A k \in 1 .. n : sent'[k] = sent[k]
  PROVE  Reached(h, n + 1)'
<1>1. /\ status'[h] = f.to /\ applied'[h] = applied[h] \cup {event_id(f)}
      /\ spent'[h] = spent[h] \cup {nonce(f)} /\ arrived'[h] = arrived[h] \cup {n + 1}
  BY DEF admit_and_fold, Types
<1>2. \A k \in 1 .. n + 1 : k \in 1 .. n \/ k = n + 1
  OBVIOUS
<1>3. arrived'[h] = 1 .. n + 1
  BY <1>1, <1>2 DEF Reached
<1>4. applied'[h] = {event_id(sent'[k]) : k \in 1 .. n + 1}
  BY <1>1, <1>2 DEF Reached, event_id
<1>5. ASSUME NEW m \in spent'[h] PROVE \E k \in 1 .. n + 1 : m = nonce(sent'[k])
  <2>1. CASE m = nonce(f)
    BY <2>1
  <2>2. CASE m \in spent[h]
    <3>1. PICK k \in 1 .. n : m = nonce(sent[k])
      BY <2>2 DEF Reached
    <3>2. k \in 1 .. n + 1 /\ sent'[k] = sent[k]
      OBVIOUS
    <3> QED BY <3>1, <3>2
  <2> QED BY <1>1, <2>1, <2>2
<1>6. status'[h] = IF n + 1 = 0 THEN "Pending" ELSE sent'[n + 1].to
  BY <1>1
<1> QED BY <1>3, <1>4, <1>5, <1>6 DEF Reached, event_id, nonce

(* Nothing that happens at one hub takes another out of step.               *)
LEMMA OthersStay ==
  ASSUME Types, NEW h \in Hubs, NEW g \in Hubs, g # h, NEW f \in Frame, admit_and_fold(h, f),
         NEW n \in 0 .. Len(sent), Reached(g, n), arrived'[g] = arrived[g],
         \A k \in 1 .. n : sent'[k] = sent[k]
  PROVE  Reached(g, n)'
<1>1. status'[g] = status[g] /\ applied'[g] = applied[g] /\ spent'[g] = spent[g]
  BY DEF admit_and_fold, Types
<1>2. arrived'[g] = 1 .. n
  BY DEF Reached
<1>3. applied'[g] = {event_id(sent'[k]) : k \in 1 .. n}
  BY <1>1 DEF Reached, event_id
<1>4. \A m \in spent'[g] : \E k \in 1 .. n : m = nonce(sent'[k])
  <2> SUFFICES ASSUME NEW m \in spent[g] PROVE \E k \in 1 .. n : m = nonce(sent'[k])
    BY <1>1
  <2>1. PICK k \in 1 .. n : m = nonce(sent[k])
    BY DEF Reached
  <2>2. sent'[k] = sent[k]
    OBVIOUS
  <2> QED BY <2>1, <2>2
<1>5. status'[g] = IF n = 0 THEN "Pending" ELSE sent'[n].to
  BY <1>1 DEF Reached
<1> QED BY <1>2, <1>3, <1>4, <1>5 DEF Reached, event_id, nonce

LEMMA OwnerReached ==
  ASSUME NEW g \in Hubs, g = o', NEW n \in Nat, n = Len(sent'), Reached(g, n)'
  PROVE  Reached(o, Len(sent))'
  BY DEF Reached

LEMMA EmitFollows ==
  ASSUME FollowInv, fifo, o \in up, NEW h \in Hubs, NEW to \in Statuses, Emit(h, to)
  PROVE  Following'
<1> DEFINE f == [from |-> status[h], to |-> to, by |-> h]
<1>0. PICK n \in Nat : n = Len(sent)
  BY DEF FollowInv, OwnerInv, Types
<1>1. /\ is_owner(h) /\ to \in allowed_next(status[h]) /\ sent' = Append(sent, f)
      /\ admit_and_fold(h, f) /\ arrived' = [arrived EXCEPT ![h] = @ \cup {n + 1}]
  BY <1>0 DEF Emit
<1>2. h = o /\ Following /\ Types /\ Ruled /\ Lawful
  BY <1>1, OnlyOwner DEF FollowInv, OwnerInv, Types, Ruled
<1>3. f \in Frame /\ f.from = status[o] /\ f.to = to
  BY <1>2 DEF Types, Frame
<1>4. /\ n \in Nat /\ Len(sent') = n + 1 /\ sent'[n + 1] = f
      /\ \A k \in 1 .. n : sent'[k] = sent[k] /\ sent[k] \in Frame /\ Ordinal(sent[k].from) \in Nat
  BY <1>0, <1>1, <1>3, OrdinalNat DEF OwnerInv, FollowInv, Types
<1>5. \A k \in 1 .. n : Ordinal(sent[k].from) < Ordinal(f.from)
  BY <1>0, <1>2, <1>3 DEF Ruled, LeftBehind
<1>6. Reached(h, n)
  BY <1>0, <1>2 DEF Following
<1>7. DodAdmits(h, f) /\ WirePasses(h, f)
  BY <1>0, <1>1, <1>2, <1>3, <1>4, <1>5, <1>6, LaterIsNew
<1>8. Reached(h, n + 1)'
  <2>1. DOMAIN arrived = Hubs /\ f.to \in allowed_next(status[h])
    BY <1>1, <1>3 DEF FollowInv
  <2>2. sent'[n + 1] = f /\ \A k \in 1 .. n : sent'[k] = sent[k]
    BY <1>4
  <2> HIDE DEF f
  <2> QED BY <1>1, <1>2, <1>3, <1>6, <1>7, <2>1, <2>2, FoldsNext
<1>9. Chained'
  <2> SUFFICES ASSUME NEW k \in 1 .. n + 1
               PROVE  sent'[k].from = IF k = 1 THEN "Pending" ELSE sent'[k - 1].to
    BY <1>4 DEF Chained
  <2>1. CASE k = n + 1
    <3>1. f.from = IF n = 0 THEN "Pending" ELSE sent[n].to
      BY <1>2, <1>3, <1>6 DEF Reached
    <3>2. n # 0 => n \in 1 .. n /\ sent'[n] = sent[n]
      BY <1>4
    <3> QED BY <2>1, <3>1, <3>2, <1>4
  <2>2. CASE k \in 1 .. n
    <3>1. sent[k].from = IF k = 1 THEN "Pending" ELSE sent[k - 1].to
      BY <2>2, <1>0, <1>2 DEF Following, Chained
    <3>2. k # 1 => k - 1 \in 1 .. n
      BY <2>2, <1>4
    <3> QED BY <2>2, <3>1, <3>2, <1>4
  <2> QED BY <2>1, <2>2, <1>4
<1>10. Ascending'
  <2> SUFFICES ASSUME NEW j \in 1 .. n + 1, NEW k \in 1 .. n + 1, j < k
               PROVE  Ordinal(sent'[j].from) < Ordinal(sent'[k].from)
    BY <1>4 DEF Ascending, Ordinal
  <2>1. j \in 1 .. n
    BY <1>4
  <2>2. CASE k = n + 1
    BY <2>1, <2>2, <1>4, <1>5
  <2>3. CASE k \in 1 .. n
    <3>1. Ordinal(sent[j].from) < Ordinal(sent[k].from)
      BY <2>1, <2>3, <1>0, <1>2 DEF Following, Ascending
    <3> QED BY <3>1, <2>1, <2>3, <1>4
  <2> QED BY <2>2, <2>3, <1>4
<1>11. \A g \in Hubs : \E m \in 0 .. Len(sent') : Reached(g, m)'
  <2> SUFFICES ASSUME NEW g \in Hubs PROVE \E m \in 0 .. n + 1 : Reached(g, m)'
    BY <1>4
  <2>1. CASE g = h
    <3>1. Reached(g, n + 1)' /\ n + 1 \in 0 .. n + 1
      BY <2>1, <1>4, <1>8
    <3> QED BY <3>1
  <2>2. CASE g # h
    <3>1. PICK m \in 0 .. n : Reached(g, m)
      BY <1>0, <1>2 DEF Following
    <3>2. arrived'[g] = arrived[g] /\ \A k \in 1 .. m : sent'[k] = sent[k]
      BY <2>2, <1>1, <1>4 DEF FollowInv
    <3>3. Reached(g, m)'
      BY <2>2, <3>1, <3>2, <1>1, <1>0, <1>2, <1>3, OthersStay
    <3>4. m \in 0 .. n + 1
      BY <1>4
    <3> QED BY <3>3, <3>4
  <2> QED BY <2>1, <2>2
<1>12. Reached(o, Len(sent))'
  <2>1. h = o' /\ n + 1 \in Nat /\ n + 1 = Len(sent')
    BY <1>2, <1>4 DEF o, first_owner
  <2> QED BY <2>1, <1>8, OwnerReached
<1> QED BY <1>9, <1>10, <1>11, <1>12 DEF Following

LEMMA ReceiveFollows ==
  ASSUME FollowInv, fifo, o \in up, NEW h \in Hubs, NEW i \in 1 .. Len(sent), Receive(h, i)
  PROVE  Following'
<1> DEFINE f == sent[i]
<1>1. /\ admit_and_fold(h, f) /\ sent' = sent /\ 1 .. i - 1 \subseteq arrived[h]
      /\ arrived' = [arrived EXCEPT ![h] = @ \cup {i}]
  BY DEF Receive
<1>2. Following /\ Types /\ Lawful
  BY DEF FollowInv, OwnerInv, Ruled
<1>3. PICK n \in 0 .. Len(sent) : Reached(h, n)
  BY <1>2 DEF Following
<1>4. f \in Frame /\ f.to \in allowed_next(f.from) /\ i \in Nat /\ n \in Nat
      /\ \A k \in 1 .. n : k \in 1 .. Len(sent) /\ sent'[k] = sent[k]
  BY <1>1, <1>2 DEF Types, Lawful
<1>5. i <= n \/ i = n + 1
  <2> SUFFICES ASSUME i > n + 1 PROVE FALSE
    BY <1>4
  <2>1. n + 1 \in 1 .. i - 1
    BY <1>4
  <2>2. n + 1 \in 1 .. n
    BY <2>1, <1>1, <1>3 DEF Reached
  <2> QED BY <2>2, <1>4
<1>6. \E m \in 0 .. Len(sent) : Reached(h, m)' /\ (n = Len(sent) => m = n)
  <2>1. CASE i <= n
    <3>1. event_id(f) \in applied[h] /\ i \in arrived[h]
      BY <2>1, <1>3 DEF Reached
    <3>2. status' = status /\ applied' = applied /\ spent' = spent
      BY <3>1, <1>1 DEF admit_and_fold, DodAdmits
    <3>3. arrived'[h] = arrived[h]
      BY <3>1, <1>1 DEF FollowInv
    <3>4. Reached(h, n)'
      BY <1>1, <1>3, <3>2, <3>3 DEF Reached
    <3> QED BY <3>4
  <2>2. CASE i = n + 1
    <3>1. status[h] = f.from
      BY <2>2, <1>2, <1>3, <1>4 DEF Reached, Following, Chained
    <3>2. \A k \in 1 .. n : Ordinal(sent[k].from) < Ordinal(f.from)
      BY <2>2, <1>2, <1>4 DEF Following, Ascending
    <3>3. DodAdmits(h, f) /\ WirePasses(h, f)
      BY <3>2, <1>2, <1>3, <1>4, LaterIsNew
    <3>4. sent'[n + 1] = f /\ arrived' = [arrived EXCEPT ![h] = @ \cup {n + 1}]
      BY <2>2, <1>1
    <3>5. Reached(h, n + 1)'
      BY <3>1, <3>3, <3>4, <1>1, <1>2, <1>3, <1>4, FoldsNext DEF FollowInv
    <3>6. n + 1 \in 0 .. Len(sent) /\ n # Len(sent)
      BY <2>2, <1>4
    <3> QED BY <3>5, <3>6
  <2> QED BY <1>5, <2>1, <2>2
<1>7. ASSUME NEW g \in Hubs, g # h, NEW m \in 0 .. Len(sent), Reached(g, m) PROVE Reached(g, m)'
  <2>1. arrived'[g] = arrived[g] /\ \A k \in 1 .. m : sent'[k] = sent[k]
    BY <1>1, <1>7 DEF FollowInv
  <2> QED BY <2>1, <1>1, <1>2, <1>4, <1>7, OthersStay
<1>8. \A g \in Hubs : \E m \in 0 .. Len(sent') : Reached(g, m)'
  BY <1>1, <1>2, <1>6, <1>7 DEF Following
<1>9. Reached(o, Len(sent))'
  <2>1. CASE h = o
    <3>1. n = Len(sent)
      <4>1. arrived[o] = 1 .. n /\ arrived[o] = 1 .. Len(sent)
        BY <2>1, <1>2, <1>3 DEF Following, Reached
      <4>2. Len(sent) \in 1 .. n
        BY <4>1, <1>2 DEF Types
      <4> QED BY <4>2, <1>4
    <3>2. Reached(h, Len(sent))'
      BY <3>1, <1>1, <1>6
    <3> QED BY <2>1, <3>2, <1>1 DEF Reached, o, first_owner
  <2>2. CASE h # o
    <3>1. PICK g \in Hubs : g = o /\ g = o'
      BY OwnerIsHub DEF o, first_owner
    <3>2. PICK m \in Nat : m = Len(sent) /\ m = Len(sent')
      BY <1>1, <1>2 DEF Types
    <3>3. Reached(g, m)
      BY <3>1, <3>2, <1>2 DEF Following
    <3>4. Reached(g, m)'
      BY <2>2, <3>1, <3>2, <3>3, <1>7
    <3> QED BY <3>1, <3>2, <3>4, OwnerReached
  <2> QED BY <2>1, <2>2
<1>10. Chained' /\ Ascending'
  BY <1>1, <1>2 DEF Following, Chained, Ascending
<1> QED BY <1>8, <1>9, <1>10 DEF Following

LEMMA NextFollows == FollowInv /\ [Next]_vars => FollowInv'
<1> SUFFICES ASSUME FollowInv, [Next]_vars PROVE FollowInv'
  OBVIOUS
<1>1. OwnerInv'
  BY NextOwner DEF FollowInv
<1>2. DOMAIN arrived' = Hubs /\ arrived' = [h \in Hubs |-> arrived'[h]]
  BY DEF FollowInv, Next, Emit, Receive, Crash, vars
<1>3. fifo' = fifo /\ up' \subseteq up /\ o' = o
  BY DEF Next, Emit, Receive, Crash, vars, o, first_owner
<1>4. ASSUME fifo, o \in up PROVE Following'
  <2>1. CASE \E h \in Hubs, to \in Statuses : Emit(h, to)
    BY <1>4, <2>1, EmitFollows
  <2>2. CASE \E h \in Hubs : \E i \in 1 .. Len(sent) : Receive(h, i)
    BY <1>4, <2>2, ReceiveFollows
  <2>3. CASE UNCHANGED <<status, applied, spent, sent, arrived>>
    <3>1. \A h, n : Reached(h, n) <=> Reached(h, n)'
      BY <2>3 DEF Reached
    <3>2. Following
      BY <1>4 DEF FollowInv
    <3> QED BY <2>3, <3>1, <3>2, <1>3 DEF Following, Chained, Ascending
  <2>4. (\E h \in Hubs : Crash(h)) => UNCHANGED <<status, applied, spent, sent, arrived>>
    BY DEF Crash
  <2>5. UNCHANGED vars => UNCHANGED <<status, applied, spent, sent, arrived>>
    BY DEF vars
  <2> QED BY <2>1, <2>2, <2>3, <2>4, <2>5 DEF Next
<1> QED BY <1>1, <1>2, <1>3, <1>4 DEF FollowInv

LEMMA InitFollows == Init => FollowInv
<1> SUFFICES ASSUME Init PROVE FollowInv
  OBVIOUS
<1>1. Len(sent) = 0 /\ 1 .. 0 = {}
  BY DEF Init
<1>2. \A h \in Hubs : Reached(h, 0)
  BY <1>1 DEF Init, Reached
<1>3. Chained /\ Ascending
  BY <1>1 DEF Chained, Ascending
<1>4. Following
  BY <1>1, <1>2, <1>3, OwnerIsHub DEF Following
<1> QED BY <1>4, InitOwner DEF FollowInv, Init

(* While the owner is up and its frames come in order, every hub stands     *)
(* where the last frame that reached it left the owner: duplicates change   *)
(* nothing, and no frame in its turn is refused.                            *)
THEOREM HubsInStep == Spec => []InStep
<1>1. FollowInv => InStep
  <2> SUFFICES ASSUME FollowInv, fifo, first_owner \in up, NEW h \in Hubs
               PROVE  status[h] = IF Cardinality(arrived[h]) = 0 THEN "Pending"
                                  ELSE sent[Cardinality(arrived[h])].to
    BY DEF InStep
  <2>1. PICK n \in 0 .. Len(sent) : Reached(h, n)
    BY DEF FollowInv, Following, o
  <2>2. n \in Nat
    BY <2>1 DEF FollowInv, OwnerInv, Types
  <2>3. Cardinality(1 .. n) = n
    BY <2>2, FS_Interval
  <2> QED BY <2>1, <2>3 DEF Reached
<1> QED BY InitFollows, NextFollows, <1>1, PTL DEF Spec

(* The safety half of FollowsOwner (intake.rs:326-328): over a carrier that  *)
(* keeps the order, a hub that every frame has reached agrees with the owner *)
(* at that moment, whatever reached it twice and whoever else has crashed.   *)
THEOREM CaughtUpAgrees ==
  Spec => [](fifo /\ first_owner \in up =>
                 \A h \in Hubs : DOMAIN sent \subseteq arrived[h]
                                     => status[h] = status[first_owner])
<1>1. FollowInv => (fifo /\ first_owner \in up =>
                        \A h \in Hubs : DOMAIN sent \subseteq arrived[h]
                                            => status[h] = status[first_owner])
  <2> SUFFICES ASSUME FollowInv, fifo, o \in up, NEW h \in Hubs, DOMAIN sent \subseteq arrived[h]
               PROVE  status[h] = status[o]
    BY DEF o
  <2>1. PICK n \in Nat : n = Len(sent) /\ DOMAIN sent = 1 .. n
    BY DEF FollowInv, OwnerInv, Types
  <2>2. PICK m \in 0 .. n : Reached(h, m)
    BY <2>1 DEF FollowInv, Following
  <2>3. Reached(o, n)
    BY <2>1 DEF FollowInv, Following
  <2>4. 1 .. n \subseteq 1 .. m
    BY <2>1, <2>2 DEF Reached
  <2>5. m = n
    <3>1. CASE n = 0
      BY <3>1
    <3>2. CASE n # 0
      <4>1. n \in 1 .. m
        BY <3>2, <2>4
      <4> QED BY <4>1
    <3> QED BY <3>1, <3>2
  <2> QED BY <2>2, <2>3, <2>5 DEF Reached
<1> QED BY InitFollows, NextFollows, <1>1, PTL DEF Spec

-----------------------------------------------------------------------------
LEMMA EventType ==
  ASSUME NEW f \in Frame
  PROVE  /\ event_id(f) \in Statuses \X Statuses
         /\ nonce(f) \in Hubs \X (0 .. 7) \X (0 .. 1) \X (0 .. 4)
<1>1. f.from \in Statuses /\ f.to \in Statuses /\ f.by \in Hubs
  BY DEF Frame
<1>2. PICK j \in 0 .. 8 : j = Ordinal(f.from)
  BY <1>1, OrdinalType
<1>3. PICK k \in 0 .. 8 : k = Ordinal(f.to)
  BY <1>1, OrdinalType
<1>4. k % 8 \in 0 .. 7 /\ (j + k \div 8) % 2 \in 0 .. 1 /\ j \div 2 \in 0 .. 4
  OBVIOUS
<1> QED BY <1>1, <1>2, <1>3, <1>4 DEF event_id, nonce

LEMMA FoldKeepsTypes ==
  ASSUME TypeOK, NEW h \in Hubs, NEW f \in Frame, admit_and_fold(h, f)
  PROVE  /\ status' \in [Hubs -> Statuses]
         /\ applied' \in [Hubs -> SUBSET (Statuses \X Statuses)]
         /\ spent' \in [Hubs -> SUBSET (Hubs \X (0 .. 7) \X (0 .. 1) \X (0 .. 4))]
<1> DEFINE Marks == Hubs \X (0 .. 7) \X (0 .. 1) \X (0 .. 4)
<1>1. event_id(f) \in Statuses \X Statuses /\ nonce(f) \in Marks /\ f.to \in Statuses
  BY EventType DEF Frame
<1>2. /\ status' = status \/ status' = [status EXCEPT ![h] = f.to]
      /\ applied' = applied \/ applied' = [applied EXCEPT ![h] = @ \cup {event_id(f)}]
      /\ spent' = spent \/ spent' = [spent EXCEPT ![h] = @ \cup {nonce(f)}]
  BY DEF admit_and_fold
<1>3. spent \in [Hubs -> SUBSET Marks]
  BY DEF TypeOK
<1> HIDE DEF Marks
<1>4. spent' \in [Hubs -> SUBSET Marks]
  BY <1>1, <1>2, <1>3
<1>5. status' \in [Hubs -> Statuses] /\ applied' \in [Hubs -> SUBSET (Statuses \X Statuses)]
  BY <1>1, <1>2 DEF TypeOK
<1> QED BY <1>4, <1>5 DEF Marks

LEMMA ReachesTypes ==
  ASSUME TypeOK, NEW h \in Hubs, NEW i \in 1 .. Len(sent'), Len(sent) <= Len(sent'),
         arrived' = [arrived EXCEPT ![h] = @ \cup {i}], sent' \in Seq(Frame)
  PROVE  arrived' \in [Hubs -> SUBSET (1 .. Len(sent'))]
<1>1. Len(sent) \in Nat /\ Len(sent') \in Nat
  BY DEF TypeOK
<1>2. \A g \in Hubs : arrived[g] \subseteq 1 .. Len(sent')
  BY <1>1 DEF TypeOK
<1> QED BY <1>2 DEF TypeOK

LEMMA NextTypes == TypeOK /\ [Next]_vars => TypeOK'
<1> SUFFICES ASSUME TypeOK, [Next]_vars PROVE TypeOK'
  OBVIOUS
<1>1. ASSUME NEW h \in Hubs, NEW to \in Statuses, Emit(h, to) PROVE TypeOK'
  <2> DEFINE f == [from |-> status[h], to |-> to, by |-> h]
  <2>1. f \in Frame /\ admit_and_fold(h, f) /\ sent' = Append(sent, f)
    BY <1>1 DEF Emit, Frame, TypeOK
  <2>2. sent' \in Seq(Frame) /\ Len(sent') = Len(sent) + 1 /\ Len(sent) \in Nat
    BY <2>1 DEF TypeOK
  <2>3. Len(sent) + 1 \in 1 .. Len(sent') /\ Len(sent) <= Len(sent')
    BY <2>2
  <2>4. arrived' = [arrived EXCEPT ![h] = @ \cup {Len(sent) + 1}] /\ UNCHANGED <<fifo, up>>
    BY <1>1 DEF Emit
  <2>5. arrived' \in [Hubs -> SUBSET (1 .. Len(sent'))]
    BY <2>2, <2>3, <2>4, ReachesTypes
  <2> QED BY <2>1, <2>2, <2>4, <2>5, FoldKeepsTypes DEF TypeOK
<1>2. ASSUME NEW h \in Hubs, NEW i \in 1 .. Len(sent), Receive(h, i) PROVE TypeOK'
  <2>1. /\ sent' = sent /\ admit_and_fold(h, sent[i]) /\ UNCHANGED <<fifo, up>>
        /\ arrived' = [arrived EXCEPT ![h] = @ \cup {i}]
    BY <1>2 DEF Receive
  <2>2. sent[i] \in Frame /\ Len(sent) \in Nat
    BY DEF TypeOK
  <2>3. arrived' \in [Hubs -> SUBSET (1 .. Len(sent'))]
    BY <2>1, <2>2, ReachesTypes DEF TypeOK
  <2> QED BY <2>1, <2>2, <2>3, FoldKeepsTypes DEF TypeOK
<1>3. ASSUME NEW h \in Hubs, Crash(h) PROVE TypeOK'
  BY <1>3 DEF Crash, TypeOK
<1>4. CASE UNCHANGED vars
  BY <1>4 DEF vars, TypeOK
<1> QED BY <1>1, <1>2, <1>3, <1>4 DEF Next

LEMMA InitTypes == Init => TypeOK
<1> SUFFICES ASSUME Init PROVE TypeOK
  OBVIOUS
<1>1. sent \in Seq(Frame) /\ "Pending" \in Statuses
  BY DEF Init, Statuses
<1> QED BY <1>1 DEF Init, TypeOK

(* The state of the hubs has its type at all times; a nonce fits its byte.  *)
THEOREM MeshTypes == Spec => []TypeOK
  BY InitTypes, NextTypes, PTL DEF Spec
-----------------------------------------------------------------------------
(* The merge of finalizations                                               *)

(* A sequence of what it holds, whatever that is.                           *)
Listing(s) == s \in Seq({s[i] : i \in DOMAIN s})

LEMMA ListingAppend ==
  ASSUME NEW s, NEW r, Listing(s)
  PROVE  /\ Listing(Append(s, r))
         /\ Len(s) \in Nat /\ DOMAIN s = 1 .. Len(s)
         /\ DOMAIN Append(s, r) = 1 .. Len(s) + 1
         /\ \A i \in 1 .. Len(s) : Append(s, r)[i] = s[i]
         /\ Append(s, r)[Len(s) + 1] = r
<1> DEFINE S == {s[i] : i \in DOMAIN s}
           t == Append(s, r)
           T == {t[i] : i \in DOMAIN t}
<1>1. s \in Seq(S)
  BY DEF Listing
<1>2. s \in Seq(S \cup {r})
  <2>1. \A i \in 1 .. Len(s) : s[i] \in S \cup {r}
    BY <1>1
  <2> QED BY <1>1, <2>1
<1> HIDE DEF S
<1>3. /\ Len(s) \in Nat /\ DOMAIN s = 1 .. Len(s)
      /\ t \in Seq(S \cup {r}) /\ Len(t) = Len(s) + 1 /\ DOMAIN t = 1 .. Len(s) + 1
      /\ \A i \in 1 .. Len(s) : t[i] = s[i]
      /\ t[Len(s) + 1] = r
  BY <1>2
<1>4. \A i \in 1 .. Len(t) : t[i] \in T
  BY <1>3
<1> HIDE DEF T, t
<1>5. t \in Seq(T)
  BY <1>3, <1>4
<1> QED BY <1>3, <1>5 DEF Listing, T, t

LEMMA LinkIsNoCorrupt ==
  ASSUME NEW a, NEW b, NEW c, NEW d
  PROVE  link(a, b, c, d) # Corrupt
<1>1. DOMAIN <<a, b, c, d>> = 1 .. 4 /\ DOMAIN <<"corrupt">> = 1 .. 1
  OBVIOUS
<1>2. 1 .. 4 # 1 .. 1
  OBVIOUS
<1> QED BY <1>1, <1>2 DEF link, Corrupt

(* A record as Finalization::new makes it, of a predecessor that is a hash. *)
Sound(r) ==
    /\ r = Finalization(r.status, r.hub, r.quorum_seq, r.prev_hash)
    /\ r.prev_hash # Corrupt

(* While the owner is up, an outcome that is recorded is the owner's.       *)
Agreed(r) == o \in up /\ Terminal(r.status) => r.status = status[o]

ChainInv ==
    /\ DOMAIN chain = Hubs
    /\ \A h \in Hubs : Listing(chain[h]) /\ \A i \in DOMAIN chain[h] : Sound(chain[h][i])

AgreedInv == \A h \in Hubs : \A i \in DOMAIN chain[h] : Agreed(chain[h][i])

Collected(w) ==
    \E h \in Hubs : \E i \in DOMAIN chain[h] :
        w = chain[h][i] \/ w = [chain[h][i] EXCEPT !.prev_hash = Corrupt]

WindowInv == Listing(window) /\ \A i \in DOMAIN window : Collected(window[i])

MergeInv == OwnerInv /\ ChainInv /\ AgreedInv /\ WindowInv

LEMMA ChainStays ==
  ASSUME ChainInv, UNCHANGED chain
  PROVE  ChainInv'
<1>1. DOMAIN chain' = Hubs
  BY DEF ChainInv
<1>2. \A h \in Hubs : Listing(chain'[h]) /\ \A i \in DOMAIN chain'[h] : Sound(chain'[h][i])
  BY DEF ChainInv
<1> QED BY <1>1, <1>2 DEF ChainInv, Listing, Sound, Finalization, link, Corrupt

LEMMA InitMerge == SettleInit => MergeInv
<1> SUFFICES ASSUME SettleInit PROVE MergeInv
  OBVIOUS
<1>1. chain = [h \in Hubs |-> <<>>] /\ window = <<>>
  BY DEF SettleInit
<1>2. Listing(<<>>)
  BY DEF Listing
<1>3. OwnerInv
  BY InitOwner DEF SettleInit
<1> QED BY <1>1, <1>2, <1>3 DEF MergeInv, ChainInv, AgreedInv, WindowInv

(* An outcome of the owner is final, and an owner that is up was up before. *)
LEMMA OutcomeStays ==
  ASSUME Types, [Next]_vars
  PROVE  /\ up' \subseteq up
         /\ Terminal(status[o]) => status'[o] = status[o]
<1> USE OwnerIsHub
<1>1. ASSUME NEW h \in Hubs, NEW f, admit_and_fold(h, f), Terminal(status[o])
      PROVE  status'[o] = status[o]
  <2>1. status' = status \/ (f.to \in allowed_next(status[h]) /\ status' = [status EXCEPT ![h] = f.to])
    BY <1>1 DEF admit_and_fold
  <2>2. status[h] \in Statuses
    BY DEF Types
  <2>3. h = o => status' = status
    BY <1>1, <2>1, <2>2, LawAdvances
  <2> QED BY <2>1, <2>3 DEF Types
<1>2. ASSUME NEW h \in Hubs, NEW to \in Statuses, Emit(h, to)
      PROVE  up' = up /\ \E f : admit_and_fold(h, f)
  BY <1>2 DEF Emit
<1>3. ASSUME NEW h \in Hubs, NEW i \in 1 .. Len(sent), Receive(h, i)
      PROVE  up' = up /\ \E f : admit_and_fold(h, f)
  BY <1>3 DEF Receive
<1>4. ASSUME NEW h \in Hubs, Crash(h)
      PROVE  up' \subseteq up /\ status' = status
  BY <1>4 DEF Crash
<1>5. CASE UNCHANGED vars
  BY <1>5 DEF vars
<1> QED BY <1>1, <1>2, <1>3, <1>4, <1>5 DEF Next

LEMMA OrderStepKeepsAgreed ==
  ASSUME MergeInv, [Next]_vars, chain' = chain
  PROVE  AgreedInv'
<1> SUFFICES ASSUME NEW h \in Hubs, NEW i \in DOMAIN chain[h], Agreed(chain[h][i])
             PROVE  Agreed(chain[h][i])'
  BY DEF AgreedInv, MergeInv
<1>1. o' = o
  BY DEF o, first_owner
<1>2. up' \subseteq up /\ (Terminal(status[o]) => status'[o] = status[o])
  BY OutcomeStays DEF MergeInv, OwnerInv
<1> QED BY <1>1, <1>2 DEF Agreed, Terminal

LEMMA FinalizeKeepsMerge ==
  ASSUME MergeInv, NEW h \in Hubs, Finalize(h)
  PROVE  MergeInv'
<1> DEFINE n == Len(chain[h])
           prev == IF n = 0 THEN Zeros ELSE chain[h][n].hash
           r == Finalization(status[h], h, n + 1, prev)
<1>1. chain' = [chain EXCEPT ![h] = Append(@, r)] /\ UNCHANGED <<vars, window>>
  BY DEF Finalize
<1>2. Listing(chain[h]) /\ DOMAIN chain = Hubs
  BY DEF MergeInv, ChainInv
<1>3. n \in Nat /\ DOMAIN chain[h] = 1 .. n
  BY <1>2, ListingAppend
<1>4. prev # Corrupt
  <2>1. CASE n = 0
    BY <2>1 DEF Zeros, Corrupt
  <2>2. CASE n # 0
    <3>1. Sound(chain[h][n])
      BY <1>3, <2>2 DEF MergeInv, ChainInv
    <3>2. prev = link(chain[h][n].status, chain[h][n].hub, chain[h][n].quorum_seq, chain[h][n].prev_hash)
      BY <2>2, <3>1 DEF Sound, Finalization
    <3> QED BY <3>2, LinkIsNoCorrupt
  <2> QED BY <2>1, <2>2
<1> HIDE DEF prev
<1>5. /\ r.status = status[h] /\ r.hub = h /\ r.quorum_seq = n + 1 /\ r.prev_hash = prev
  BY DEF Finalization
<1>6. Sound(r)
  BY <1>4, <1>5 DEF Sound
<1>7. Agreed(r)
  BY <1>5 DEF Agreed, MergeInv, OwnerInv, Ruled, LeftBehind, Emitted
<1> HIDE DEF r
<1>8. /\ Listing(chain'[h]) /\ DOMAIN chain'[h] = 1 .. n + 1
      /\ \A i \in 1 .. n : chain'[h][i] = chain[h][i]
      /\ chain'[h][n + 1] = r
  BY <1>1, <1>2, ListingAppend
<1>9. \A g \in Hubs : g # h => chain'[g] = chain[g]
  BY <1>1, <1>2
<1>10. \A g \in Hubs : /\ Listing(chain'[g])
                       /\ \A i \in DOMAIN chain'[g] : Sound(chain'[g][i]) /\ Agreed(chain'[g][i])
  <2> SUFFICES ASSUME NEW g \in Hubs
               PROVE  /\ Listing(chain'[g])
                      /\ \A i \in DOMAIN chain'[g] : Sound(chain'[g][i]) /\ Agreed(chain'[g][i])
    OBVIOUS
  <2>1. CASE g = h
    <3>1. \A i \in 1 .. n : Sound(chain[h][i]) /\ Agreed(chain[h][i])
      BY <1>3 DEF MergeInv, ChainInv, AgreedInv
    <3> QED BY <1>3, <1>6, <1>7, <1>8, <2>1, <3>1
  <2>2. CASE g # h
    BY <1>9, <2>2 DEF MergeInv, ChainInv, AgreedInv
  <2> QED BY <2>1, <2>2
<1>11. o' = o /\ UNCHANGED <<up, status>>
  BY <1>1 DEF o, first_owner, vars
<1>12. AgreedInv'
  BY <1>10, <1>11 DEF AgreedInv, Agreed, Terminal
<1>13. ChainInv'
  BY <1>1, <1>2, <1>10 DEF ChainInv, Sound, Finalization, link, Corrupt
<1>14. \A w : Collected(w) => Collected(w)'
  <2> SUFFICES ASSUME NEW w, NEW g \in Hubs, NEW i \in DOMAIN chain[g],
                      w = chain[g][i] \/ w = [chain[g][i] EXCEPT !.prev_hash = Corrupt]
               PROVE  i \in DOMAIN chain'[g] /\ chain'[g][i] = chain[g][i]
    BY DEF Collected, Corrupt
  <2> QED BY <1>3, <1>8, <1>9
<1>15. WindowInv'
  BY <1>1, <1>14 DEF MergeInv, WindowInv, Listing
<1>16. OwnerInv'
  BY <1>1, NextOwner DEF MergeInv
<1> QED BY <1>12, <1>13, <1>15, <1>16 DEF MergeInv

LEMMA CollectKeepsMerge ==
  ASSUME MergeInv, NEW w, Collected(w), window' = Append(window, w), UNCHANGED <<vars, chain>>
  PROVE  MergeInv'
<1>1. OwnerInv'
  BY NextOwner DEF MergeInv
<1>2. o' = o /\ UNCHANGED <<up, status>>
  BY DEF o, first_owner, vars
<1>3. ChainInv' /\ AgreedInv'
  <2>1. ChainInv'
    BY ChainStays DEF MergeInv
  <2>2. AgreedInv'
    BY <1>2 DEF MergeInv, AgreedInv, Agreed, Terminal
  <2> QED BY <2>1, <2>2
<1>4. /\ Listing(window') /\ Len(window) \in Nat /\ DOMAIN window = 1 .. Len(window)
      /\ DOMAIN window' = 1 .. Len(window) + 1
      /\ \A i \in 1 .. Len(window) : window'[i] = window[i]
      /\ window'[Len(window) + 1] = w
  BY ListingAppend DEF MergeInv, WindowInv
<1>5. \A i \in DOMAIN window' : Collected(window'[i])
  BY <1>4 DEF MergeInv, WindowInv
<1>6. \A i \in DOMAIN window' : Collected(window[i])'
  <2> SUFFICES ASSUME NEW i \in DOMAIN window', NEW x, x = window'[i], Collected(x)
               PROVE  Collected(x)'
    BY <1>5 DEF Collected
  <2> QED BY DEF Collected, Corrupt
<1>7. Listing(window)'
  BY <1>4 DEF Listing
<1>8. WindowInv'
  BY <1>6, <1>7 DEF WindowInv
<1> QED BY <1>1, <1>3, <1>8 DEF MergeInv

LEMMA NextMerge == MergeInv /\ [SettleNext]_settleVars => MergeInv'
<1> SUFFICES ASSUME MergeInv, [SettleNext]_settleVars PROVE MergeInv'
  OBVIOUS
<1>1. CASE [Next]_vars /\ UNCHANGED <<chain, window>>
  <2>1. OwnerInv' /\ AgreedInv'
    BY <1>1, NextOwner, OrderStepKeepsAgreed DEF MergeInv
  <2>2. ChainInv'
    BY <1>1, ChainStays DEF MergeInv
  <2>3. WindowInv'
    BY <1>1 DEF MergeInv, WindowInv, Listing, Collected, Corrupt
  <2> QED BY <2>1, <2>2, <2>3 DEF MergeInv
<1>2. CASE \E h \in Hubs : Finalize(h)
  BY <1>2, FinalizeKeepsMerge
<1>3. CASE \E h \in Hubs : \E i \in 1 .. MaxRecords : Collect(h, i) \/ CollectDamaged(h, i)
  <2>1. PICK h \in Hubs, i \in 1 .. MaxRecords : Collect(h, i) \/ CollectDamaged(h, i)
    BY <1>3
  <2>2. CASE Collect(h, i)
    <3>1. Collected(chain[h][i])
      BY <2>2 DEF Collect, Collected
    <3> QED BY <2>2, <3>1, CollectKeepsMerge DEF Collect
  <2>3. CASE CollectDamaged(h, i)
    <3>1. Collected([chain[h][i] EXCEPT !.prev_hash = Corrupt])
      BY <2>3 DEF CollectDamaged, Collected
    <3> QED BY <2>3, <3>1, CollectKeepsMerge DEF CollectDamaged
  <2> QED BY <2>1, <2>2, <2>3
<1> QED BY <1>1, <1>2, <1>3 DEF SettleNext, settleVars

LEMMA MergeAlways == SettleSpec => []MergeInv
  BY InitMerge, NextMerge, PTL DEF SettleSpec

(* However early the hubs finalize and however their records come in, the    *)
(* merge of intact records is accepted as long as the owner has stayed up.  *)
THEOREM MergeIsAccepted == SettleSpec => []NoFalseQuarantine
<1>1. ASSUME MergeInv, first_owner \in up, window # <<>>, Intact(window)
      PROVE  reconcile(window).ok
  <2>1. \A i \in DOMAIN window : Sound(window[i]) /\ Agreed(window[i])
    BY <1>1 DEF Intact, Sent, MergeInv, ChainInv, AgreedInv
  <2>2. \A i \in DOMAIN window : verify_chain(window[i], window[i].prev_hash)
    BY <2>1 DEF Sound, Finalization, verify_chain
  <2>3. ~detect_conflict(window)
    BY <1>1, <2>1 DEF detect_conflict, Clash, Agreed, o, is_terminal, Terminal
  <2> QED BY <1>1, <2>2, <2>3 DEF reconcile
<1>2. MergeInv => NoFalseQuarantine
  BY <1>1 DEF NoFalseQuarantine
<1> QED BY <1>2, MergeAlways, PTL

(* No damaged record is ever merged, and no two that settle the order        *)
(* differently, wherever in the window they stand.                          *)
THEOREM SplitIsNeverMerged == SettleSpec => []SplitIsQuarantined
<1>1. ASSUME MergeInv, reconcile(window).ok
      PROVE  /\ Intact(window)
             /\ \A i, j \in DOMAIN window :
                   Terminal(window[i].status) /\ Terminal(window[j].status)
                       => window[i].status = window[j].status
  <2>1. /\ \A i \in DOMAIN window : verify_chain(window[i], window[i].prev_hash)
        /\ ~detect_conflict(window)
    BY <1>1 DEF reconcile, Refused
  <2>2. ASSUME NEW i \in DOMAIN window
        PROVE  \E h \in Hubs : window[i] \in Sent(h)
    <3>a. PICK h \in Hubs : \E k \in DOMAIN chain[h] :
              window[i] = chain[h][k] \/ window[i] = [chain[h][k] EXCEPT !.prev_hash = Corrupt]
      BY <1>1 DEF MergeInv, WindowInv, Collected
    <3>1. PICK k \in DOMAIN chain[h] :
              window[i] = chain[h][k] \/ window[i] = [chain[h][k] EXCEPT !.prev_hash = Corrupt]
      BY <3>a
    <3> DEFINE r == chain[h][k]
    <3>2. Sound(r)
      BY <1>1 DEF MergeInv, ChainInv
    <3>3. CASE window[i] = [r EXCEPT !.prev_hash = Corrupt]
      <4>1. window[i] = [Finalization(r.status, r.hub, r.quorum_seq, r.prev_hash)
                             EXCEPT !.prev_hash = Corrupt]
        BY <3>2, <3>3 DEF Sound
      <4> DEFINE d == window[i]
      <4>2. /\ d.hash = link(r.status, r.hub, r.quorum_seq, r.prev_hash)
            /\ d.prev_hash = Corrupt
        BY <4>1 DEF Finalization
      <4>3. d.hash = link(d.status, d.hub, d.quorum_seq, d.prev_hash)
        BY <2>1 DEF verify_chain
      <4> HIDE DEF d
      <4>4. r.prev_hash = Corrupt
        BY <4>2, <4>3 DEF link
      <4> QED BY <3>2, <4>4 DEF Sound
    <3> QED BY <3>1, <3>3 DEF Sent
  <2>3. Intact(window)
    BY <2>2 DEF Intact
  <2>4. \A i, j \in DOMAIN window :
            Terminal(window[i].status) /\ Terminal(window[j].status)
                => window[i].status = window[j].status
    BY <2>1 DEF detect_conflict, Clash, is_terminal, Terminal
  <2> QED BY <2>3, <2>4
<1>2. MergeInv => SplitIsQuarantined
  BY <1>1 DEF SplitIsQuarantined
<1> QED BY <1>2, MergeAlways, PTL

(* An outcome that a merge has accepted is not taken back by a record that   *)
(* comes in later: the merge keeps it or refuses.                           *)
THEOREM VerdictIsFinal == SettleSpec => VerdictNeverFlips
<1>1. MergeInv /\ [SettleNext]_settleVars =>
          [Settles(reconcile(window)) =>
               ~reconcile(window').ok \/ reconcile(window') = reconcile(window)]_settleVars
  <2> SUFFICES ASSUME MergeInv, SettleNext, reconcile(window).ok, reconcile(window').ok
               PROVE  reconcile(window') = reconcile(window)
    BY DEF Settles
  <2>1. window # <<>> /\ reconcile(window) = [ok |-> TRUE, status |-> window[1].status]
    BY DEF reconcile, Refused
  <2>2. reconcile(window') = [ok |-> TRUE, status |-> window'[1].status]
    BY DEF reconcile, Refused
  <2>3. window' = window \/ \E w : window' = Append(window, w)
    BY DEF SettleNext, Finalize, Collect, CollectDamaged
  <2>4. Listing(window)
    BY DEF MergeInv, WindowInv
  <2>5. 1 \in 1 .. Len(window)
    BY <2>1, <2>4 DEF Listing
  <2>6. window'[1] = window[1]
    BY <2>3, <2>4, <2>5, ListingAppend
  <2> QED BY <2>1, <2>2, <2>6
<1> QED BY <1>1, MergeAlways, PTL DEF SettleSpec, VerdictNeverFlips

-----------------------------------------------------------------------------
(* hub_ring.rs:3-4 with finalization.rs:139-140: while the owner is up, the   *)
(* outcome that a merge accepts is the owner's, whichever hubs' records it   *)
(* was made from.                                                           *)
THEOREM MergeIsOwners ==
  SettleSpec => [](first_owner \in up /\ Settles(reconcile(window))
                       => reconcile(window).status = status[first_owner])
<1>1. ASSUME MergeInv, SplitIsQuarantined, first_owner \in up, Settles(reconcile(window))
      PROVE  reconcile(window).status = status[first_owner]
  <2>1. window # <<>> /\ reconcile(window) = [ok |-> TRUE, status |-> window[1].status]
    BY <1>1 DEF Settles, reconcile, Refused
  <2>2. 1 \in DOMAIN window
    BY <1>1, <2>1 DEF MergeInv, WindowInv, Listing
  <2>3. \A i \in DOMAIN window : Agreed(window[i])
    BY <1>1, <2>1 DEF SplitIsQuarantined, Intact, Sent, MergeInv, AgreedInv
  <2>4. Terminal(window[1].status)
    BY <1>1, <2>1 DEF Settles
  <2> QED BY <1>1, <2>1, <2>2, <2>3, <2>4 DEF Agreed, o
<1>2. MergeInv /\ SplitIsQuarantined
          => (first_owner \in up /\ Settles(reconcile(window))
                  => reconcile(window).status = status[first_owner])
  BY <1>1
<1> QED BY <1>2, MergeAlways, SplitIsNeverMerged, PTL

(* PartitionMerge::reconcile, for any two windows with the same records in    *)
(* them: whether it accepts depends neither on the order in which they came  *)
(* in nor on how often each did, and two acceptances never name different    *)
(* outcomes; when every record is terminal they name the same one.           *)
THEOREM MergeIgnoresOrder ==
  ASSUME NEW r, NEW s, Listing(r), Listing(s),
         {r[i] : i \in DOMAIN r} = {s[i] : i \in DOMAIN s}
  PROVE  /\ reconcile(r).ok <=> reconcile(s).ok
         /\ Settles(reconcile(r)) /\ Settles(reconcile(s)) => reconcile(r) = reconcile(s)
         /\ (\A i \in DOMAIN r : is_terminal(r[i].status)) => reconcile(r) = reconcile(s)
<1>1. /\ \A i \in DOMAIN r : \E j \in DOMAIN s : r[i] = s[j]
      /\ \A j \in DOMAIN s : \E i \in DOMAIN r : s[j] = r[i]
  OBVIOUS
<1>2. /\ r # <<>> => 1 \in DOMAIN r
      /\ s # <<>> => 1 \in DOMAIN s
      /\ DOMAIN <<>> = {}
  BY DEF Listing
<1>3. r = <<>> <=> s = <<>>
  BY <1>1, <1>2
<1>4. detect_conflict(r) <=> detect_conflict(s)
  BY <1>1 DEF detect_conflict
<1>5. (\E i \in DOMAIN r : ~verify_chain(r[i], r[i].prev_hash))
          <=> (\E i \in DOMAIN s : ~verify_chain(s[i], s[i].prev_hash))
  BY <1>1
<1>6. reconcile(r).ok <=> reconcile(s).ok
  BY <1>3, <1>4, <1>5 DEF reconcile, Refused
<1>7. ASSUME reconcile(r).ok
      PROVE  /\ reconcile(r) = [ok |-> TRUE, status |-> r[1].status]
             /\ reconcile(s) = [ok |-> TRUE, status |-> s[1].status]
             /\ 1 \in DOMAIN r /\ 1 \in DOMAIN s /\ ~detect_conflict(r)
  BY <1>2, <1>6, <1>7 DEF reconcile, Refused
<1>8. ASSUME reconcile(r).ok, is_terminal(r[1].status), is_terminal(s[1].status)
      PROVE  reconcile(r) = reconcile(s)
  <2>1. PICK i \in DOMAIN r : s[1] = r[i]
    BY <1>1, <1>7, <1>8
  <2>2. ~Clash(r[1], r[i])
    BY <1>7, <1>8 DEF detect_conflict
  <2> QED BY <1>7, <1>8, <2>1, <2>2 DEF Clash
<1>9. Settles(reconcile(r)) /\ Settles(reconcile(s)) => reconcile(r) = reconcile(s)
  BY <1>7, <1>8 DEF Settles, Terminal, is_terminal
<1>10. ASSUME \A i \in DOMAIN r : is_terminal(r[i].status)
       PROVE  reconcile(r) = reconcile(s)
  <2>1. CASE reconcile(r).ok
    <3>1. is_terminal(r[1].status) /\ is_terminal(s[1].status)
      BY <1>1, <1>7, <1>10, <2>1
    <3> QED BY <1>8, <2>1, <3>1
  <2>2. CASE ~reconcile(r).ok
    BY <1>6, <2>2 DEF reconcile, Refused
  <2> QED BY <2>1, <2>2
<1> QED BY <1>6, <1>9, <1>10
=============================================================================
