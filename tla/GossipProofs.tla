----------------------------- MODULE GossipProofs -----------------------------
(***************************************************************************)
(* The two exchanges between nodes: the pull of events (SyncPull), and the  *)
(* gossip of directories (Discovery, below).                                *)
(*                                                                         *)
(* A watermark is one number per actor, so it says what a node has folded  *)
(* only if the node has no gap below it.  With events numbered from 1 and  *)
(* responses that arrive whole this is so, for any nodes, links, actors    *)
(* and events, stale requests, lost and repeated responses: a response     *)
(* closes every gap that its own frames could open (Gapless).              *)
(***************************************************************************)
EXTENDS SyncPull, Discovery, WellFoundedInduction, TLAPS

FoldedCommitted ==
    \A n \in Nodes : \A e \in frames[n] : Committed(e) /\ e.seq <= max_seq[n][e.actor]

AuthorHasAll ==
    \A e \in Event : Committed(e) => e \in frames[Author[e.actor]]

Folded(n, watermark) ==
    \A e \in Event : Committed(e) /\ e.seq <= watermark[e.actor] => e \in frames[n]

Reached(watermark) == \A a \in Actors : watermark[a] < FirstSeq + committed[a]

Watermarks == \A n \in Nodes : Folded(n, max_seq[n]) /\ Reached(max_seq[n])

Requests ==
    \A n, m \in Nodes : \A watermark \in request[n][m] :
        Folded(n, watermark) /\ Reached(watermark)

Closed(n, batch) ==
    \A e \in batch :
        /\ Committed(e)
        /\ \A f \in Event : Committed(f) /\ f.actor = e.actor /\ f.seq < e.seq
               => f \in batch \/ f \in frames[n]

Gapless == \A n \in Nodes : \A batch \in response[n] : Closed(n, batch)

PullInv ==
    TypeOK /\ FoldedCommitted /\ AuthorHasAll /\ Watermarks /\ Requests /\ Gapless

LEMMA LeastNat ==
  ASSUME NEW T \in SUBSET Nat, T # {}
  PROVE  \E x \in T : \A y \in T : x <= y
<1> DEFINE R == OpToRel(<, Nat)
<1>1. \E x \in T : \A y \in T : ~(<<y, x>> \in R)
  BY NatLessThanWellFounded, WFMin
<1>2. \A x, y \in Nat : y < x => <<y, x>> \in R
  BY DEF OpToRel
<1> HIDE DEF R
<1>3. PICK x \in T : \A y \in T : ~(<<y, x>> \in R)
  BY <1>1
<1>4. ASSUME NEW y \in T PROVE x <= y
  <2>1. x \in Nat /\ y \in Nat
    OBVIOUS
  <2>2. ~(y < x)
    BY <1>2, <1>3, <2>1
  <2> QED BY <2>1, <2>2
<1> QED BY <1>4

LEMMA GreatestNat ==
  ASSUME NEW T \in SUBSET Nat, T # {}, NEW b \in Nat, \A x \in T : x <= b
  PROVE  \E x \in T : \A y \in T : y <= x
<1> DEFINE D == {b - x : x \in T}
<1>1. \A x \in T : x \in Nat /\ b - x \in Nat
  OBVIOUS
<1>2. D \in SUBSET Nat
  BY <1>1
<1>3. D # {}
  OBVIOUS
<1>4. PICK d \in D : \A y \in D : d <= y
  BY <1>2, <1>3, LeastNat
<1>5. PICK x \in T : d = b - x
  BY <1>4
<1>6. \A y \in T : b - x <= b - y
  BY <1>4, <1>5
<1>7. \A y \in T : y <= x
  BY <1>1, <1>6
<1> QED BY <1>7

(* Raised never lowers a watermark, covers every frame it is given, and     *)
(* moves only to the seq of one of them.                                    *)
LEMMA RaisedBounds ==
  ASSUME NEW w \in [Actors -> Nat], NEW S \in SUBSET Event, NEW a \in Actors,
         NEW b \in Nat, \A e \in S : e.actor = a => e.seq <= b
  PROVE  LET v == Raised(w, S)[a] IN
         /\ v \in Nat /\ w[a] <= v
         /\ \A e \in S : e.actor = a => e.seq <= v
         /\ v = w[a] \/ \E e \in S : e.actor = a /\ e.seq = v
<1> DEFINE of == {e \in S : e.actor = a}
           top(e) == e \in S /\ e.actor = a /\ \A f \in S : f.actor = a => f.seq <= e.seq
<1>1. \A e \in of : e.seq \in Nat
  BY DEF Event
<1>2. CASE \E e \in S : e.actor = a /\ e.seq > w[a]
  <2> DEFINE T == {e.seq : e \in of}
  <2>1. T \in SUBSET Nat /\ T # {} /\ \A x \in T : x <= b
    BY <1>1, <1>2
  <2>2. PICK x \in T : \A y \in T : y <= x
    BY <2>1, GreatestNat
  <2>3. PICK e \in of : e.seq = x
    BY <2>2
  <2>4. top(e)
    BY <2>2, <2>3
  <2>5. \E g \in S : g.actor = a /\ \A f \in S : f.actor = a => f.seq <= g.seq
    BY <2>4
  <2> DEFINE m == CHOOSE g \in S : g.actor = a /\ \A f \in S : f.actor = a => f.seq <= g.seq
  <2>6. m \in S /\ m.actor = a /\ \A f \in S : f.actor = a => f.seq <= m.seq
    BY <2>5
  <2>7. Raised(w, S)[a] = m.seq
    BY <1>2 DEF Raised
  <2> HIDE DEF m
  <2>8. m.seq \in Nat /\ w[a] <= m.seq
    BY <1>1, <1>2, <2>6
  <2> QED BY <2>6, <2>7, <2>8
<1>3. CASE ~\E e \in S : e.actor = a /\ e.seq > w[a]
  <2>1. Raised(w, S)[a] = w[a]
    BY <1>3 DEF Raised
  <2>2. \A e \in S : e.actor = a => e.seq <= w[a]
    BY <1>1, <1>3
  <2> QED BY <2>1, <2>2
<1> QED BY <1>2, <1>3

Growing == committed' \in [Actors -> Nat] /\ \A a \in Actors : committed[a] <= committed'[a]

(* What a watermark has reached is not disturbed by events committed later. *)
LEMMA OldBelow ==
  ASSUME TypeOK, Growing, NEW w \in [Actors -> Nat], Reached(w),
         NEW e \in Event, Committed(e)', e.seq <= w[e.actor]
  PROVE  Committed(e)
<1>1. e.actor \in Actors /\ e.seq \in Nat
  BY DEF Event
<1>2. FirstSeq \in Nat /\ committed[e.actor] \in Nat /\ w[e.actor] \in Nat
  BY <1>1, FirstSeqAssumption DEF TypeOK
<1>3. w[e.actor] < FirstSeq + committed[e.actor] /\ FirstSeq <= e.seq
  BY <1>1 DEF Reached, Committed
<1> QED BY <1>1, <1>2, <1>3 DEF Committed

LEMMA CommittedStays ==
  ASSUME TypeOK, Growing, NEW e, Committed(e)
  PROVE  Committed(e)'
<1>1. e.actor \in Actors /\ e.seq \in Nat
  BY DEF Committed, Event
<1>2. FirstSeq \in Nat /\ committed[e.actor] \in Nat /\ committed'[e.actor] \in Nat
      /\ committed[e.actor] <= committed'[e.actor]
  BY <1>1, FirstSeqAssumption DEF TypeOK, Growing
<1> QED BY <1>1, <1>2 DEF Committed

LEMMA FoldKeeps ==
  ASSUME PullInv, Growing, NEW n \in Nodes, NEW S \in SUBSET Event, Fold(n, S),
         \A e \in S : Committed(e)',
         \A e \in S : \A f \in Event : Committed(f)' /\ f.actor = e.actor /\ f.seq < e.seq
             => f \in S \/ f \in frames[n]
  PROVE  /\ frames' \in [Nodes -> SUBSET Event]
         /\ \A m \in Nodes : frames[m] \subseteq frames'[m]
         /\ max_seq' \in [Nodes -> [Actors -> Nat]]
         /\ FoldedCommitted' /\ Watermarks'
<1> DEFINE w == max_seq[n]
           v == Raised(w, S)
<1>1. /\ frames \in [Nodes -> SUBSET Event] /\ max_seq \in [Nodes -> [Actors -> Nat]]
      /\ w \in [Actors -> Nat] /\ FirstSeq \in Nat
      /\ committed \in [Actors -> Nat] /\ committed' \in [Actors -> Nat]
  BY FirstSeqAssumption DEF PullInv, TypeOK, Growing
<1>2. /\ frames' \in [Nodes -> SUBSET Event]
      /\ frames'[n] = frames[n] \cup S
      /\ \A m \in Nodes : m # n => frames'[m] = frames[m]
      /\ \A m \in Nodes : frames[m] \subseteq frames'[m]
  BY <1>1 DEF Fold
<1>3. max_seq'[n] = v /\ \A m \in Nodes : m # n => max_seq'[m] = max_seq[m]
  BY <1>1 DEF Fold
<1>4. ASSUME NEW e \in S
      PROVE  /\ e \in Event /\ e.actor \in Actors /\ e.seq \in Nat
             /\ e.seq < FirstSeq + committed'[e.actor]
  BY DEF Event, Committed
<1>5. ASSUME NEW a \in Actors
      PROVE  /\ v[a] \in Nat /\ w[a] <= v[a]
             /\ \A e \in S : e.actor = a => e.seq <= v[a]
             /\ v[a] = w[a] \/ \E e \in S : e.actor = a /\ e.seq = v[a]
  <2> DEFINE b == FirstSeq + committed'[a]
  <2>1. b \in Nat /\ \A e \in S : e.actor = a => e.seq <= b
    BY <1>1, <1>4
  <2>2. w \in [Actors -> Nat]
    BY <1>1
  <2> HIDE DEF w, b
  <2>3. LET u == Raised(w, S)[a] IN
        /\ u \in Nat /\ w[a] <= u
        /\ \A e \in S : e.actor = a => e.seq <= u
        /\ u = w[a] \/ \E e \in S : e.actor = a /\ e.seq = u
    BY <2>1, <2>2, RaisedBounds
  <2> QED BY <2>3
<1>6. v = [a \in Actors |-> v[a]]
  BY DEF Raised
<1> HIDE DEF w, v
<1>7. v \in [Actors -> Nat]
  BY <1>5, <1>6
<1>8. max_seq' \in [Nodes -> [Actors -> Nat]]
  <2>1. max_seq' = [max_seq EXCEPT ![n] = v]
    BY DEF Fold, v, w
  <2> QED BY <1>1, <1>7, <2>1
<1>9. FoldedCommitted'
  <2> SUFFICES ASSUME NEW m \in Nodes, NEW e \in frames'[m]
               PROVE  Committed(e)' /\ e.seq <= max_seq'[m][e.actor]
    BY DEF FoldedCommitted
  <2>1. CASE e \in frames[m]
    <3>1. Committed(e) /\ e.seq <= max_seq[m][e.actor]
      BY <2>1 DEF PullInv, FoldedCommitted
    <3>2. Committed(e)'
      BY <3>1, CommittedStays DEF PullInv
    <3>3. e \in Event /\ e.actor \in Actors /\ e.seq \in Nat
      BY <3>1 DEF Committed, Event
    <3>4. CASE m = n
      BY <1>1, <1>3, <1>5, <3>1, <3>2, <3>3, <3>4 DEF w
    <3> QED BY <1>3, <3>1, <3>2, <3>4
  <2>2. CASE m = n /\ e \in S
    BY <1>3, <1>4, <1>5, <2>2
  <2> QED BY <1>2, <2>1, <2>2
<1>10. Watermarks'
  <2> SUFFICES ASSUME NEW m \in Nodes
               PROVE  Folded(m, max_seq[m])' /\ Reached(max_seq[m])'
    BY DEF Watermarks
  <2>1. Folded(m, max_seq[m]) /\ Reached(max_seq[m]) /\ max_seq[m] \in [Actors -> Nat]
    BY <1>1 DEF PullInv, Watermarks
  <2>2. CASE m # n
    <3>1. max_seq'[m] = max_seq[m] /\ frames'[m] = frames[m]
      BY <1>2, <1>3, <2>2
    <3>2. \A e \in Event : Committed(e)' /\ e.seq <= max_seq[m][e.actor] => e \in frames[m]
      BY <2>1, OldBelow DEF PullInv, Folded
    <3>3. \A a \in Actors : max_seq[m][a] < FirstSeq + committed'[a]
      BY <1>1, <2>1 DEF Reached, Growing
    <3> QED BY <3>1, <3>2, <3>3 DEF Folded, Reached
  <2>3. CASE m = n
    <3>1. ASSUME NEW e \in Event, Committed(e)', e.seq <= v[e.actor]
          PROVE  e \in frames'[n]
      <4>1. e.actor \in Actors /\ e.seq \in Nat /\ v[e.actor] \in Nat
        BY <1>7 DEF Event
      <4>2. CASE v[e.actor] = w[e.actor]
        <5>1. w \in [Actors -> Nat] /\ Reached(w) /\ Folded(n, w)
          BY <2>1, <2>3 DEF w
        <5>2. Committed(e)
          BY <3>1, <4>2, <5>1, OldBelow DEF PullInv
        <5>3. e \in frames[n]
          BY <3>1, <4>2, <5>1, <5>2 DEF Folded
        <5> QED BY <1>2, <5>3
      <4>3. CASE \E g \in S : g.actor = e.actor /\ g.seq = v[e.actor]
        <5>1. PICK g \in S : g.actor = e.actor /\ g.seq = v[e.actor]
          BY <4>3
        <5>2. CASE e.seq < g.seq
          <6>1. e \in S \/ e \in frames[n]
            BY <3>1, <5>1, <5>2
          <6> QED BY <1>2, <6>1
        <5>3. CASE e.seq = g.seq
          <6>1. e = g
            BY <1>4, <5>1, <5>3 DEF Event
          <6> QED BY <1>2, <6>1
        <5> QED BY <1>4, <3>1, <4>1, <5>1, <5>2, <5>3
      <4> QED BY <1>5, <4>1, <4>2, <4>3
    <3>2. \A a \in Actors : v[a] < FirstSeq + committed'[a]
      <4> SUFFICES ASSUME NEW a \in Actors PROVE v[a] < FirstSeq + committed'[a]
        OBVIOUS
      <4>1. w[a] < FirstSeq + committed[a] /\ w[a] \in Nat
        BY <2>1, <2>3 DEF Reached, w
      <4>2. CASE v[a] = w[a]
        BY <1>1, <4>1, <4>2 DEF Growing
      <4>3. CASE \E g \in S : g.actor = a /\ g.seq = v[a]
        BY <1>4, <4>3
      <4> QED BY <1>5, <4>2, <4>3
    <3> QED BY <1>3, <2>3, <3>1, <3>2 DEF Folded, Reached
  <2> QED BY <2>2, <2>3
<1> QED BY <1>2, <1>8, <1>9, <1>10

(* A response already on its way stays closed: what is committed later has  *)
(* a higher seq, and what is folded stays folded.                           *)
LEMMA ClosedStays ==
  ASSUME TypeOK, Growing, NEW n \in Nodes, NEW batch, Closed(n, batch),
         frames[n] \subseteq frames'[n]
  PROVE  Closed(n, batch)'
<1> SUFFICES ASSUME NEW e \in batch
             PROVE  /\ Committed(e)'
                    /\ \A f \in Event : Committed(f)' /\ f.actor = e.actor /\ f.seq < e.seq
                           => f \in batch \/ f \in frames'[n]
  BY DEF Closed
<1>1. Committed(e) /\ Committed(e)'
  BY CommittedStays DEF Closed
<1>2. ASSUME NEW f \in Event, Committed(f)', f.actor = e.actor, f.seq < e.seq
      PROVE  Committed(f)
  <2>1. e.actor \in Actors /\ e.seq \in Nat /\ f.seq \in Nat
    BY <1>1 DEF Committed, Event
  <2>2. FirstSeq \in Nat /\ committed[e.actor] \in Nat
    BY <2>1, FirstSeqAssumption DEF TypeOK
  <2> QED BY <1>1, <1>2, <2>1, <2>2 DEF Committed
<1> QED BY <1>1, <1>2 DEF Closed

LEMMA InitPull ==
  ASSUME FirstSeq # 0, Init
  PROVE  PullInv
<1>1. FirstSeq \in Nat /\ FirstSeq > 0
  BY FirstSeqAssumption
<1>2. TypeOK
  BY DEF Init, TypeOK
<1>3. \A e \in Event : ~Committed(e)
  BY <1>1 DEF Init, Committed, Event
<1>4. FoldedCommitted /\ AuthorHasAll /\ Requests /\ Gapless
  BY <1>3 DEF Init, FoldedCommitted, AuthorHasAll, Requests, Gapless
<1>5. Watermarks
  <2> SUFFICES ASSUME NEW n \in Nodes PROVE Folded(n, max_seq[n]) /\ Reached(max_seq[n])
    BY DEF Watermarks
  <2>1. \A a \in Actors : max_seq[n][a] = 0 /\ committed[a] = 0
    BY DEF Init
  <2> QED BY <1>1, <1>3, <2>1 DEF Folded, Reached
<1> QED BY <1>2, <1>4, <1>5 DEF PullInv

LEMMA CommitKeeps ==
  ASSUME PullInv, NEW a \in Actors, local_commit(a)
  PROVE  PullInv'
<1> DEFINE n == Author[a]
<1>0. PICK e : e = [actor |-> a, seq |-> FirstSeq + committed[a]]
  OBVIOUS
<1>1. FirstSeq \in Nat /\ committed \in [Actors -> Nat] /\ n \in Nodes
  BY FirstSeqAssumption, AuthorAssumption DEF PullInv, TypeOK
<1>2. /\ committed' = [committed EXCEPT ![a] = @ + 1] /\ Fold(n, {e})
      /\ request' = request /\ response' = response /\ lost' = lost
  BY <1>0 DEF local_commit
<1>3. e \in Event /\ e.actor = a /\ e.seq = FirstSeq + committed[a] /\ {e} \in SUBSET Event
  BY <1>0, <1>1 DEF Event
<1>4. Growing
  BY <1>1, <1>2 DEF Growing
<1>5. \A f \in Event : Committed(f)' => Committed(f) \/ f = e
  <2> SUFFICES ASSUME NEW f \in Event, Committed(f)' PROVE Committed(f) \/ f = e
    OBVIOUS
  <2>1. f.actor \in Actors /\ f.seq \in Nat /\ f = [actor |-> f.actor, seq |-> f.seq]
    BY DEF Event
  <2>2. CASE f.actor # a
    BY <1>1, <1>2, <2>1, <2>2 DEF Committed
  <2>3. CASE f.actor = a
    <3>1. FirstSeq <= f.seq /\ f.seq < FirstSeq + (committed[a] + 1)
      BY <1>1, <1>2, <2>3 DEF Committed
    <3>2. CASE f.seq = FirstSeq + committed[a]
      BY <1>0, <2>1, <2>3, <3>2
    <3>3. CASE f.seq < FirstSeq + committed[a]
      BY <2>3, <3>1, <3>3 DEF Committed
    <3> QED BY <1>1, <2>1, <3>1, <3>2, <3>3
  <2> QED BY <2>2, <2>3
<1>6. Committed(e)'
  BY <1>1, <1>2, <1>3 DEF Committed
<1> HIDE DEF n
<1>7. \A g \in {e} : \A f \in Event : Committed(f)' /\ f.actor = g.actor /\ f.seq < g.seq
          => f \in {e} \/ f \in frames[n]
  <2> SUFFICES ASSUME NEW f \in Event, Committed(f)', f.actor = a, f # e PROVE f \in frames[n]
    BY <1>3
  <2> QED BY <1>5 DEF PullInv, AuthorHasAll, n
<1>8. /\ frames' \in [Nodes -> SUBSET Event]
      /\ \A m \in Nodes : frames[m] \subseteq frames'[m]
      /\ max_seq' \in [Nodes -> [Actors -> Nat]]
      /\ FoldedCommitted' /\ Watermarks'
  BY <1>1, <1>2, <1>3, <1>4, <1>6, <1>7, FoldKeeps
<1>9. TypeOK'
  BY <1>2, <1>4, <1>8 DEF PullInv, TypeOK, Growing
<1>10. AuthorHasAll'
  <2> SUFFICES ASSUME NEW f \in Event, Committed(f)' PROVE f \in frames'[Author[f.actor]]
    BY DEF AuthorHasAll
  <2>1. Author[f.actor] \in Nodes
    BY AuthorAssumption DEF Event
  <2>2. CASE Committed(f)
    BY <1>8, <2>1, <2>2 DEF PullInv, AuthorHasAll
  <2>3. CASE f = e
    <3>1. frames'[n] = frames[n] \cup {e}
      BY <1>1, <1>2 DEF Fold, PullInv, TypeOK
    <3> QED BY <1>3, <2>3, <3>1 DEF n
  <2> QED BY <1>5, <2>2, <2>3
<1>11. Requests'
  <2> SUFFICES ASSUME NEW m \in Nodes, NEW k \in Nodes, NEW w \in request[m][k]
               PROVE  Folded(m, w)' /\ Reached(w)'
    BY <1>2 DEF Requests
  <2>1. Folded(m, w) /\ Reached(w) /\ w \in [Actors -> Nat]
    BY DEF PullInv, Requests, TypeOK
  <2>2. \A f \in Event : Committed(f)' /\ f.seq <= w[f.actor] => f \in frames'[m]
    BY <1>4, <1>8, <2>1, OldBelow DEF PullInv, Folded
  <2>3. \A b \in Actors : w[b] < FirstSeq + committed'[b]
    BY <1>1, <1>4, <2>1 DEF Reached, Growing
  <2> QED BY <2>2, <2>3 DEF Folded, Reached
<1>12. Gapless'
  BY <1>2, <1>4, <1>8, ClosedStays DEF PullInv, Gapless
<1> QED BY <1>8, <1>9, <1>10, <1>11, <1>12 DEF PullInv

LEMMA RequestKeeps ==
  ASSUME PullInv, NEW n \in Nodes, NEW m \in Nodes, make_pull_request(n, m)
  PROVE  PullInv'
<1>1. /\ UNCHANGED <<committed, frames, max_seq, response, lost>>
      /\ request' = [request EXCEPT ![n][m] = {max_seq[n]}]
  BY DEF make_pull_request
<1>2. TypeOK'
  BY <1>1 DEF PullInv, TypeOK
<1>3. Requests'
  <2> SUFFICES ASSUME NEW i \in Nodes, NEW j \in Nodes, NEW w \in request'[i][j]
               PROVE  Folded(i, w) /\ Reached(w)
    BY <1>1 DEF Requests, Folded, Reached, Committed
  <2>1. w \in request[i][j] \/ (i = n /\ w = max_seq[n])
    BY <1>1 DEF PullInv, TypeOK
  <2> QED BY <2>1 DEF PullInv, Requests, Watermarks
<1>4. FoldedCommitted' /\ AuthorHasAll' /\ Watermarks' /\ Gapless'
  BY <1>1 DEF PullInv, FoldedCommitted, AuthorHasAll, Watermarks, Gapless,
              Folded, Reached, Closed, Committed
<1> QED BY <1>2, <1>3, <1>4 DEF PullInv

(* The peer has no gap behind the frames it sends, and the requester none   *)
(* below the watermark it sent.                                             *)
LEMMA PastClosed ==
  ASSUME PullInv, NEW n \in Nodes, NEW m \in Nodes, NEW w \in request[n][m]
  PROVE  Closed(n, Past(m, w)) /\ Past(m, w) \in SUBSET Event
<1>1. Folded(n, w) /\ Reached(w) /\ w \in [Actors -> Nat] /\ Folded(m, max_seq[m])
      /\ max_seq[m] \in [Actors -> Nat] /\ frames[m] \in SUBSET Event
  BY DEF PullInv, Requests, TypeOK, Watermarks
<1>2. Past(m, w) \in SUBSET Event
  BY <1>1 DEF Past
<1>3. ASSUME NEW e \in Past(m, w) PROVE Committed(e) /\ e.seq <= max_seq[m][e.actor]
  BY DEF Past, PullInv, FoldedCommitted
<1>4. ASSUME NEW e \in Past(m, w), NEW f \in Event,
             Committed(f), f.actor = e.actor, f.seq < e.seq
      PROVE  f \in Past(m, w) \/ f \in frames[n]
  <2>1. /\ f.actor \in Actors /\ f.seq \in Nat /\ e.seq \in Nat
        /\ max_seq[m][f.actor] \in Nat /\ w[f.actor] \in Nat
    BY <1>1, <1>2 DEF Event
  <2>2. CASE f.seq <= w[f.actor]
    BY <1>1, <1>4, <2>2 DEF Folded
  <2>3. CASE f.seq > w[f.actor]
    <3>1. f.seq <= max_seq[m][f.actor]
      BY <1>3, <1>4, <2>1
    <3>2. f \in frames[m]
      BY <1>1, <1>4, <3>1 DEF Folded
    <3> QED BY <2>3, <3>2 DEF Past
  <2> QED BY <2>1, <2>2, <2>3
<1> QED BY <1>2, <1>3, <1>4 DEF Closed

LEMMA PullKeeps ==
  ASSUME PullInv, NEW n \in Nodes, NEW m \in Nodes, pull(m, n)
  PROVE  PullInv'
<1>1. PICK w \in request[n][m] :
          /\ request' = [request EXCEPT ![n][m] = {}]
          /\ response' = [response EXCEPT ![n] = @ \cup ({Past(m, w)} \ {{}})]
          /\ UNCHANGED <<committed, frames, max_seq, lost>>
  BY DEF pull
<1>2. \A i, j \in Nodes : request'[i][j] \subseteq request[i][j]
  BY <1>1 DEF PullInv, TypeOK
<1>3. Closed(n, Past(m, w)) /\ Past(m, w) \in SUBSET Event
  BY PastClosed
<1> DEFINE batch == Past(m, w)
<1> HIDE DEF batch
<1>4. response' = [response EXCEPT ![n] = @ \cup ({batch} \ {{}})]
  BY <1>1 DEF batch
<1>5. request' \in [Nodes -> [Nodes -> SUBSET [Actors -> Nat]]]
  BY <1>1 DEF PullInv, TypeOK
<1>6. response' \in [Nodes -> SUBSET (SUBSET Event)]
  BY <1>3, <1>4 DEF PullInv, TypeOK, batch
<1>7. TypeOK'
  BY <1>1, <1>5, <1>6 DEF PullInv, TypeOK
<1>8. Requests'
  BY <1>1, <1>2 DEF PullInv, Requests, Folded, Reached, Committed
<1>9. Gapless'
  <2> SUFFICES ASSUME NEW i \in Nodes, NEW b \in response'[i] PROVE Closed(i, b)
    BY <1>1 DEF Gapless, Closed, Committed
  <2>1. b \in response[i] \/ (i = n /\ b = batch)
    BY <1>4 DEF PullInv, TypeOK
  <2> QED BY <1>3, <2>1 DEF PullInv, Gapless, batch
<1>10. FoldedCommitted' /\ AuthorHasAll' /\ Watermarks'
  BY <1>1 DEF PullInv, FoldedCommitted, AuthorHasAll, Watermarks, Folded, Reached, Committed
<1> QED BY <1>7, <1>8, <1>9, <1>10 DEF PullInv

LEMMA IngestKeeps ==
  ASSUME Whole, PullInv, NEW n \in Nodes, NEW batch, NEW S, ingest(n, batch, S)
  PROVE  PullInv'
<1> DEFINE T == batch \ frames[n]
<1>1. /\ batch \in response[n] /\ S = batch /\ Fold(n, T)
      /\ UNCHANGED <<committed, request, lost>>
      /\ \/ response' = [response EXCEPT ![n] = (@ \ {batch}) \cup ({{}} \ {{}})]
         \/ UNCHANGED response
  BY DEF ingest
<1>2. Closed(n, batch) /\ batch \in SUBSET Event
  BY <1>1 DEF PullInv, Gapless, TypeOK
<1>3. Growing
  BY <1>1 DEF Growing, PullInv, TypeOK
<1>4. T \in SUBSET Event /\ \A e \in T : Committed(e)'
  BY <1>1, <1>2 DEF Closed, Committed
<1>5. \A e \in T : \A f \in Event : Committed(f)' /\ f.actor = e.actor /\ f.seq < e.seq
          => f \in T \/ f \in frames[n]
  BY <1>1, <1>2 DEF Closed, Committed
<1> HIDE DEF T
<1>6. /\ frames' \in [Nodes -> SUBSET Event]
      /\ \A m \in Nodes : frames[m] \subseteq frames'[m]
      /\ max_seq' \in [Nodes -> [Actors -> Nat]]
      /\ FoldedCommitted' /\ Watermarks'
  BY <1>1, <1>3, <1>4, <1>5, FoldKeeps
<1>7. response' \in [Nodes -> SUBSET (SUBSET Event)]
      /\ \A m \in Nodes : response'[m] \subseteq response[m]
  BY <1>1 DEF PullInv, TypeOK
<1>8. TypeOK'
  BY <1>1, <1>6, <1>7 DEF PullInv, TypeOK
<1>9. AuthorHasAll'
  <2> SUFFICES ASSUME NEW e \in Event, Committed(e) PROVE e \in frames'[Author[e.actor]]
    BY <1>1 DEF AuthorHasAll, Committed
  <2>1. Author[e.actor] \in Nodes
    BY AuthorAssumption DEF Event
  <2> QED BY <1>6, <2>1 DEF PullInv, AuthorHasAll
<1>10. Requests'
  <2> SUFFICES ASSUME NEW i \in Nodes, NEW j \in Nodes, NEW w \in request[i][j]
               PROVE  Folded(i, w)' /\ Reached(w)
    BY <1>1 DEF Requests, Reached
  <2>1. Folded(i, w) /\ Reached(w)
    BY DEF PullInv, Requests
  <2>2. \A e \in Event : Committed(e) /\ e.seq <= w[e.actor] => e \in frames'[i]
    BY <1>6, <2>1 DEF Folded
  <2> QED BY <1>1, <2>1, <2>2 DEF Folded, Committed
<1>11. Gapless'
  BY <1>3, <1>6, <1>7, ClosedStays DEF PullInv, Gapless
<1> QED BY <1>6, <1>8, <1>9, <1>10, <1>11 DEF PullInv

LEMMA LoseKeeps ==
  ASSUME PullInv, NEW n \in Nodes, NEW batch, Lose(n, batch)
  PROVE  PullInv'
<1>1. /\ UNCHANGED <<committed, frames, max_seq, request>> /\ lost' = lost + 1
      /\ response' = [response EXCEPT ![n] = @ \ {batch}]
  BY DEF Lose
<1>2. TypeOK' /\ \A m \in Nodes : response'[m] \subseteq response[m]
  BY <1>1 DEF PullInv, TypeOK
<1>3. Gapless'
  BY <1>1, <1>2 DEF PullInv, Gapless, Closed, Committed
<1>4. FoldedCommitted' /\ AuthorHasAll' /\ Watermarks' /\ Requests'
  BY <1>1 DEF PullInv, FoldedCommitted, AuthorHasAll, Watermarks, Requests,
              Folded, Reached, Committed
<1> QED BY <1>2, <1>3, <1>4 DEF PullInv

LEMMA NextPull ==
  ASSUME Whole, PullInv, [Next]_vars
  PROVE  PullInv'
<1>1. CASE UNCHANGED vars
  BY <1>1 DEF vars, PullInv, TypeOK, FoldedCommitted, AuthorHasAll, Watermarks, Requests,
              Gapless, Closed, Folded, Reached, Committed
<1>2. CASE \E a \in Actors : local_commit(a)
  BY <1>2, CommitKeeps
<1>3. CASE \E n, m \in Nodes : make_pull_request(n, m) \/ pull(m, n)
  BY <1>3, RequestKeeps, PullKeeps
<1>4. CASE \E n \in Nodes : \E batch \in response[n] :
               (\E S \in SUBSET batch : ingest(n, batch, S)) \/ Lose(n, batch)
  BY <1>4, IngestKeeps, LoseKeeps
<1> QED BY <1>1, <1>2, <1>3, <1>4 DEF Next

(* When events are numbered from 1 and responses arrive whole, no request   *)
(* ever passes over an event the node lacks.                                *)
THEOREM PullSkipsNothing ==
  ASSUME Whole, FirstSeq # 0
  PROVE  Spec => [](TypeOK /\ NothingSkipped)
<1>1. PullInv => TypeOK /\ NothingSkipped
  <2> SUFFICES ASSUME PullInv, NEW n \in Nodes, NEW e \in Events,
                      Committed(e), e \notin frames[n]
               PROVE  e.seq > max_seq[n][e.actor]
    BY DEF PullInv, NothingSkipped
  <2>1. e \in Event /\ e.actor \in Actors /\ e.seq \in Nat
    BY DEF Committed, Event
  <2>2. Folded(n, max_seq[n]) /\ max_seq[n][e.actor] \in Nat
    BY <2>1 DEF PullInv, Watermarks, TypeOK
  <2> QED BY <2>1, <2>2 DEF Folded
<1>2. Init => PullInv
  BY InitPull
<1>3. PullInv /\ [Next]_vars => PullInv'
  BY NextPull
<1> QED BY <1>1, <1>2, <1>3, PTL DEF Spec

(* The safety half of Converges (sync_pull.rs:21-23): one number per actor    *)
(* is enough to say what a node lacks.  What a peer would answer at this     *)
(* moment is just what it has and the node has not, none of it twice and     *)
(* none of it left out, whatever earlier responses were stale or lost.       *)
THEOREM PullIsTheDifference ==
  ASSUME Whole, FirstSeq # 0
  PROVE  Spec => [](\A m, n \in Nodes : Past(m, max_seq[n]) = frames[m] \ frames[n])
<1>1. PullInv => \A m, n \in Nodes : Past(m, max_seq[n]) = frames[m] \ frames[n]
  <2> SUFFICES ASSUME PullInv, NEW m \in Nodes, NEW n \in Nodes, NEW e \in frames[m]
               PROVE  e.seq > max_seq[n][e.actor] <=> e \notin frames[n]
    BY DEF Past
  <2>1. /\ Committed(e) /\ e \in Event /\ e.actor \in Actors /\ e.seq \in Nat
        /\ max_seq[n][e.actor] \in Nat
    BY DEF PullInv, FoldedCommitted, TypeOK, Event
  <2>2. e \in frames[n] => e.seq <= max_seq[n][e.actor]
    BY DEF PullInv, FoldedCommitted
  <2>3. e \notin frames[n] => ~(e.seq <= max_seq[n][e.actor])
    BY <2>1 DEF PullInv, Watermarks, Folded
  <2> QED BY <2>1, <2>2, <2>3
<1>2. Init => PullInv
  BY InitPull
<1>3. PullInv /\ [Next]_vars => PullInv'
  BY NextPull
<1> QED BY <1>1, <1>2, <1>3, PTL DEF Spec

-----------------------------------------------------------------------------
(* Discovery, for any peers, addresses and seeds, any number of restarts and *)
(* broken exchanges, and any operators.                                     *)

LEMMA MergeType ==
  ASSUME NEW a \in Peers, NEW d \in Directory, NEW other \in Directory
  PROVE  merge(a, d, other) \in Directory
  BY DEF merge, Directory

(* Merging takes in what it lacks and is allowed, and replaces nothing.      *)
LEMMA MergeKeeps ==
  ASSUME NEW a \in Peers, NEW d, NEW other, NEW p \in Peers
  PROVE  /\ d[p] # None => merge(a, d, other)[p] = d[p]
         /\ p \in revoked[a] /\ d[p] = None => merge(a, d, other)[p] = None
         /\ merge(a, d, other)[p] \in {d[p], other[p]}
  BY DEF merge

LEMMA CallKinds ==
  ASSUME GossipTypeOK, NEW a \in Peers
  PROVE  /\ call[a].at = "dialing" => call[a].ep \in Addrs /\ call[a].payload \in Directory
         /\ call[a].at = "served" => call[a].by \in Peers
         /\ call[a].at = "replied" => call[a].by \in Peers /\ call[a].payload \in Directory
<1>1. call[a] \in Call
  BY DEF GossipTypeOK
<1> QED BY <1>1 DEF Call, Idle

LEMMA EvictedType ==
  ASSUME GossipTypeOK, NEW a \in Peers, NEW p \in Peers, Evict(a, p)
  PROVE  GossipTypeOK'
<1>1. revoked' \in [Peers -> SUBSET Peers]
  BY DEF Evict, evict_revoked, GossipTypeOK
<1>2. [q \in Peers |-> IF q \in revoked[a] \cup {p} THEN None ELSE dir[a][q]] \in Directory
  BY DEF GossipTypeOK, Directory
<1>3. dir' \in [Peers -> Directory]
  BY <1>2 DEF Evict, evict_revoked, GossipTypeOK
<1> QED BY <1>1, <1>3 DEF Evict, GossipTypeOK, gossip

LEMMA BootstrapIs ==
  ASSUME GossipTypeOK, NEW a \in Peers, addr' \in [Peers -> Addrs]
  PROVE  /\ Bootstrap(a) \in Directory /\ Bootstrap(a)[a] = addr'[a]
         /\ \A p \in Peers : Bootstrap(a)[p] \in {None, addr'[p]}
<1>1. Seed[a] \in Peers
  BY DiscoveryAssumption
<1> QED BY <1>1 DEF Bootstrap, Empty, Directory

LEMMA RestartTypes ==
  ASSUME GossipTypeOK, NEW a \in Peers, NEW ep \in Addrs, Restart(a, ep)
  PROVE  GossipTypeOK'
<1>1. addr' \in [Peers -> Addrs]
  BY DEF Restart, GossipTypeOK
<1>2. dir' \in [Peers -> Directory]
  BY <1>1, BootstrapIs DEF Restart, GossipTypeOK
<1>3. revoked' \in [Peers -> SUBSET Peers] /\ targets' \in [Peers -> SUBSET Addrs]
  BY DEF Restart, GossipTypeOK
<1>4. Idle \in Call
  BY DEF Call
<1>5. call' \in [Peers -> Call]
  BY <1>4 DEF Restart, GossipTypeOK
<1>6. faults' \in 0 .. MaxFaults
  BY DiscoveryAssumption DEF Restart, GossipTypeOK
<1> QED BY <1>1, <1>2, <1>3, <1>5, <1>6 DEF GossipTypeOK

LEMMA ExchangeTypes ==
  ASSUME GossipTypeOK, NEW a \in Peers, Gossip(a) \/ Break(a)
  PROVE  GossipTypeOK'
<1>1. dir[a] \in Directory /\ Idle \in Call
  BY DEF GossipTypeOK, Call
<1>2. CASE TickStart(a)
  <2>1. {dir[a][p] : p \in Peers \ {a}} \ {None} \subseteq Addrs
    BY <1>1 DEF Directory
  <2> QED BY <1>2, <2>1 DEF TickStart, GossipTypeOK, directory
<1>3. ASSUME NEW ep \in Addrs, Dial(a, ep) PROVE GossipTypeOK'
  <2>1. [at |-> "dialing", ep |-> ep, payload |-> to_wire(a)] \in Call
    BY <1>1 DEF Call, to_wire
  <2>2. call' \in [Peers -> Call] /\ targets' \in [Peers -> SUBSET Addrs]
    BY <1>3, <2>1 DEF Dial, GossipTypeOK
  <2> QED BY <1>3, <2>2 DEF Dial, GossipTypeOK, directory
<1>4. CASE Refused(a)
  BY <1>1, <1>4 DEF Refused, GossipTypeOK, directory
<1>5. ASSUME NEW b \in Peers, Serve(a, b) PROVE GossipTypeOK'
  <2>1. [at |-> "served", by |-> b] \in Call
    BY DEF Call
  <2>2. merge(b, dir[b], call[a].payload) \in Directory
    BY <1>5, CallKinds, MergeType DEF Serve, GossipTypeOK
  <2>3. dir' \in [Peers -> Directory] /\ call' \in [Peers -> Call]
    BY <1>5, <2>1, <2>2 DEF Serve, GossipTypeOK
  <2> QED BY <1>5, <2>3 DEF Serve, GossipTypeOK
<1>6. CASE Reply(a)
  <2>1. call[a].by \in Peers
    BY <1>6, CallKinds DEF Reply
  <2>2. [at |-> "replied", by |-> call[a].by, payload |-> to_wire(call[a].by)] \in Call
    BY <2>1 DEF Call, to_wire, GossipTypeOK
  <2> QED BY <1>6, <2>2 DEF Reply, GossipTypeOK, directory
<1>7. CASE Learn(a)
  <2>1. merge(a, dir[a], call[a].payload) \in Directory
    BY <1>1, <1>7, CallKinds, MergeType DEF Learn
  <2>2. dir' \in [Peers -> Directory] /\ call' \in [Peers -> Call]
    BY <1>1, <1>7, <2>1 DEF Learn, GossipTypeOK
  <2> QED BY <1>7, <2>2 DEF Learn, GossipTypeOK
<1>8. CASE Break(a)
  <2>1. faults' \in 0 .. MaxFaults /\ call' \in [Peers -> Call]
    BY <1>1, <1>8, DiscoveryAssumption DEF Break, GossipTypeOK
  <2> QED BY <1>8, <2>1 DEF Break, GossipTypeOK, directory
<1> QED BY <1>2, <1>3, <1>4, <1>5, <1>6, <1>7, <1>8 DEF Gossip

LEMMA GossipNextTypes ==
  ASSUME GossipTypeOK, [GossipNext]_gossipVars
  PROVE  GossipTypeOK'
<1>1. ASSUME NEW a \in Peers, NEW p \in Peers, Reseed(a, p) PROVE GossipTypeOK'
  <2>1. insert(a, dir[a], p, addr[p]) \in Directory
    BY DEF insert, Directory, GossipTypeOK
  <2>2. dir' \in [Peers -> Directory]
    BY <1>1, <2>1 DEF Reseed, GossipTypeOK
  <2> QED BY <1>1, <2>2 DEF Reseed, GossipTypeOK, gossip
<1>2. CASE UNCHANGED gossipVars
  BY <1>2 DEF gossipVars, directory, gossip, GossipTypeOK
<1> QED BY <1>1, <1>2, ExchangeTypes, EvictedType, RestartTypes DEF GossipNext

LEMMA GossipInitTypes == GossipInit => GossipTypeOK
<1> SUFFICES ASSUME GossipInit PROVE GossipTypeOK
  OBVIOUS
<1>1. dir \in [Peers -> Directory]
  BY DiscoveryAssumption DEF GossipInit, Empty, Directory
<1>2. Idle \in Call /\ 0 \in 0 .. MaxFaults
  BY DiscoveryAssumption DEF Call
<1> QED BY <1>1, <1>2, DiscoveryAssumption DEF GossipInit, GossipTypeOK

(* Every agent dials addresses, and every exchange is with a peer.           *)
THEOREM GossipTyped == GossipSpec => []GossipTypeOK
<1> QED BY GossipInitTypes, GossipNextTypes, PTL DEF GossipSpec

-----------------------------------------------------------------------------
(* An agent's own entry is there, so what it has been told is revoked cannot *)
(* be itself, and an eviction leaves that entry alone.                      *)
DirectoryInv == GossipTypeOK /\ RevokedStaysOut /\ KnowsItself

(* What merging does to the directory of one agent.                          *)
LEMMA MergeKeepsDirectory ==
  ASSUME DirectoryInv, NEW b \in Peers, NEW other,
         dir' = [dir EXCEPT ![b] = merge(b, dir[b], other)], addr' = addr, revoked' = revoked
  PROVE  RevokedStaysOut' /\ KnowsItself'
<1>1. ASSUME NEW a \in Peers, NEW p \in Peers, p \in revoked[a] PROVE dir'[a][p] = None
  BY <1>1, MergeKeeps DEF DirectoryInv, RevokedStaysOut, GossipTypeOK
<1>2. ASSUME NEW a \in Peers PROVE dir'[a][a] = addr[a]
  <2>1. dir[a][a] = addr[a] /\ addr[a] # None
    BY DiscoveryAssumption DEF DirectoryInv, KnowsItself, GossipTypeOK
  <2> QED BY <2>1, MergeKeeps DEF DirectoryInv, GossipTypeOK
<1> QED BY <1>1, <1>2 DEF RevokedStaysOut, KnowsItself

LEMMA EvictKeepsDirectory ==
  ASSUME DirectoryInv, NEW a \in Peers, NEW p \in Peers, Evict(a, p)
  PROVE  RevokedStaysOut' /\ KnowsItself'
<1> DEFINE out == revoked[a] \cup {p}
<1>1. /\ revoked' = [revoked EXCEPT ![a] = out]
      /\ dir' = [dir EXCEPT ![a] = [q \in Peers |-> IF q \in out THEN None ELSE dir[a][q]]]
      /\ addr' = addr /\ p # a
  BY DEF Evict, evict_revoked
<1>2. a \notin out
  BY <1>1, DiscoveryAssumption DEF DirectoryInv, RevokedStaysOut, KnowsItself, GossipTypeOK
<1>3. ASSUME NEW b \in Peers, NEW q \in Peers, q \in revoked'[b] PROVE dir'[b][q] = None
  BY <1>1, <1>3 DEF DirectoryInv, RevokedStaysOut, GossipTypeOK
<1>4. ASSUME NEW b \in Peers PROVE dir'[b][b] = addr'[b]
  BY <1>1, <1>2 DEF DirectoryInv, KnowsItself, GossipTypeOK
<1> QED BY <1>3, <1>4 DEF RevokedStaysOut, KnowsItself

LEMMA RestartKeepsDirectory ==
  ASSUME DirectoryInv, NEW a \in Peers, NEW ep \in Addrs, Restart(a, ep)
  PROVE  RevokedStaysOut' /\ KnowsItself'
<1>1. /\ addr' = [addr EXCEPT ![a] = ep] /\ dir' = [dir EXCEPT ![a] = Bootstrap(a)]
      /\ revoked' = [revoked EXCEPT ![a] = {}]
  BY DEF Restart
<1>2. addr' \in [Peers -> Addrs]
  BY <1>1 DEF DirectoryInv, GossipTypeOK
<1>3. Bootstrap(a)[a] = addr'[a]
  BY <1>2, BootstrapIs DEF DirectoryInv
<1>4. ASSUME NEW b \in Peers, NEW q \in Peers, q \in revoked'[b] PROVE dir'[b][q] = None
  BY <1>1, <1>4 DEF DirectoryInv, RevokedStaysOut, GossipTypeOK
<1>5. ASSUME NEW b \in Peers PROVE dir'[b][b] = addr'[b]
  BY <1>1, <1>3 DEF DirectoryInv, KnowsItself, GossipTypeOK
<1> QED BY <1>4, <1>5 DEF RevokedStaysOut, KnowsItself

LEMMA ReseedKeepsDirectory ==
  ASSUME DirectoryInv, NEW a \in Peers, NEW p \in Peers, Reseed(a, p)
  PROVE  RevokedStaysOut' /\ KnowsItself'
<1>1. dir' = [dir EXCEPT ![a] = insert(a, dir[a], p, addr[p])] /\ UNCHANGED <<addr, revoked>>
  BY DEF Reseed
<1>2. \A q \in Peers : /\ q \in revoked[a] => insert(a, dir[a], p, addr[p])[q] = dir[a][q]
                       /\ insert(a, dir[a], p, addr[p])[q] \in {dir[a][q], addr[q]}
  BY DEF insert, DirectoryInv, GossipTypeOK, Directory
<1>3. ASSUME NEW b \in Peers, NEW q \in Peers, q \in revoked[b] PROVE dir'[b][q] = None
  BY <1>1, <1>2, <1>3 DEF DirectoryInv, RevokedStaysOut, GossipTypeOK
<1>4. ASSUME NEW b \in Peers PROVE dir'[b][b] = addr[b]
  BY <1>1, <1>2 DEF DirectoryInv, KnowsItself, GossipTypeOK
<1> QED BY <1>1, <1>3, <1>4 DEF RevokedStaysOut, KnowsItself

LEMMA NextDirectory ==
  ASSUME DirectoryInv, [GossipNext]_gossipVars
  PROVE  DirectoryInv'
<1>1. GossipTypeOK'
  BY GossipNextTypes DEF DirectoryInv
<1>2. CASE UNCHANGED <<addr, dir, revoked>>
  BY <1>1, <1>2 DEF DirectoryInv, RevokedStaysOut, KnowsItself
<1>3. CASE ~UNCHANGED <<addr, dir, revoked>>
  <2>1. PICK a \in Peers :
          \/ \E b \in Peers : Serve(a, b)
          \/ Learn(a)
          \/ \E p \in Peers : Reseed(a, p) \/ Evict(a, p)
          \/ \E ep \in Addrs : Restart(a, ep)
    BY <1>3 DEF GossipNext, Gossip, TickStart, Dial, Refused, Reply, Break, gossipVars, directory
  <2>2. ASSUME NEW b \in Peers, Serve(a, b) PROVE RevokedStaysOut' /\ KnowsItself'
    BY <2>2, MergeKeepsDirectory DEF Serve
  <2>3. CASE Learn(a)
    <3>1. /\ dir' = [dir EXCEPT ![a] = merge(a, dir[a], call[a].payload)]
          /\ addr' = addr /\ revoked' = revoked
      BY <2>3 DEF Learn
    <3> QED BY <1>1, <3>1, MergeKeepsDirectory DEF DirectoryInv
  <2> QED BY <1>1, <2>1, <2>2, <2>3, ReseedKeepsDirectory, EvictKeepsDirectory,
             RestartKeepsDirectory DEF DirectoryInv
<1> QED BY <1>2, <1>3

LEMMA InitDirectory == GossipInit => DirectoryInv
<1> SUFFICES ASSUME GossipInit PROVE DirectoryInv
  OBVIOUS
<1>1. \A a \in Peers : dir[a][a] = Home[a]
  BY DiscoveryAssumption DEF GossipInit, Empty
<1> QED BY <1>1, GossipInitTypes DEF GossipInit, DirectoryInv, RevokedStaysOut, KnowsItself

LEMMA DirectoryAlways == GossipSpec => []DirectoryInv
<1> QED BY InitDirectory, NextDirectory, PTL DEF GossipSpec

(* discovery.rs:81: no merge and no seeding brings back an entry that the     *)
(* agent was told is revoked, whoever gossips it and for however long.      *)
THEOREM RevokedNeverReturns == GossipSpec => []RevokedStaysOut
<1>1. DirectoryInv => RevokedStaysOut
  BY DEF DirectoryInv
<1> QED BY <1>1, DirectoryAlways, PTL

(* discovery.rs:182: no gossip, eviction or restart leaves an agent without   *)
(* its own address, or with an older one.                                   *)
THEOREM AgentsKnowThemselves == GossipSpec => []KnowsItself
<1>1. DirectoryInv => KnowsItself
  BY DEF DirectoryInv
<1> QED BY <1>1, DirectoryAlways, PTL

-----------------------------------------------------------------------------
(* The safety half of RootsConverge: while nobody moves, every entry that is *)
(* stored, or on its way in a payload, is the address its peer listens at.  *)
AtHome == addr = Home

Truthful(d) == \A p \in Peers : d[p] \in {None, Home[p]}

DirectoriesTrue == \A a \in Peers : Truthful(dir[a])

PayloadsTrue ==
    \A a \in Peers : call[a].at \in {"dialing", "replied"} => Truthful(call[a].payload)

TruthInv == GossipTypeOK /\ DirectoriesTrue /\ PayloadsTrue

LEMMA MergeKeepsTruth ==
  ASSUME TruthInv, NEW b \in Peers, NEW other, Truthful(other),
         dir' = [dir EXCEPT ![b] = merge(b, dir[b], other)]
  PROVE  DirectoriesTrue'
<1>1. Truthful(merge(b, dir[b], other))
  BY MergeKeeps DEF TruthInv, DirectoriesTrue, Truthful
<1> QED BY <1>1 DEF TruthInv, GossipTypeOK, DirectoriesTrue, Truthful

LEMMA NextTruth ==
  ASSUME TruthInv, AtHome, AtHome', [GossipNext]_gossipVars
  PROVE  TruthInv'
<1> USE DEF AtHome
<1>1. GossipTypeOK'
  BY GossipNextTypes DEF TruthInv
<1>2. CASE UNCHANGED gossipVars
  BY <1>1, <1>2 DEF TruthInv, DirectoriesTrue, PayloadsTrue, gossipVars, directory, gossip
<1>3. ASSUME NEW a \in Peers, Gossip(a) \/ Break(a)
      PROVE  DirectoriesTrue' /\ PayloadsTrue'
  <2>1. CASE TickStart(a) \/ Refused(a) \/ Break(a)
    BY <2>1 DEF TickStart, Refused, Break, TruthInv, DirectoriesTrue, PayloadsTrue, directory,
                GossipTypeOK, Idle
  <2>2. ASSUME NEW ep \in Addrs, Dial(a, ep) PROVE DirectoriesTrue' /\ PayloadsTrue'
    BY <2>2 DEF Dial, TruthInv, DirectoriesTrue, PayloadsTrue, directory, GossipTypeOK, to_wire
  <2>3. ASSUME NEW b \in Peers, Serve(a, b) PROVE DirectoriesTrue' /\ PayloadsTrue'
    <3>1. DirectoriesTrue'
      BY <2>3, MergeKeepsTruth DEF Serve, TruthInv, PayloadsTrue
    <3>2. PayloadsTrue'
      BY <2>3 DEF Serve, TruthInv, PayloadsTrue, GossipTypeOK
    <3> QED BY <3>1, <3>2
  <2>4. CASE Reply(a)
    <3>1. call[a].by \in Peers
      BY <2>4, CallKinds DEF Reply, TruthInv
    <3>2. Truthful(to_wire(call[a].by))
      BY <3>1 DEF TruthInv, DirectoriesTrue, to_wire
    <3>3. PayloadsTrue'
      BY <2>4, <3>2 DEF Reply, TruthInv, PayloadsTrue, GossipTypeOK
    <3> QED BY <2>4, <3>3 DEF Reply, TruthInv, DirectoriesTrue, directory
  <2>5. CASE Learn(a)
    <3>1. DirectoriesTrue'
      BY <2>5, MergeKeepsTruth DEF Learn, TruthInv, PayloadsTrue
    <3>2. PayloadsTrue'
      BY <2>5 DEF Learn, TruthInv, PayloadsTrue, GossipTypeOK, Idle
    <3> QED BY <3>1, <3>2
  <2> QED BY <1>3, <2>1, <2>2, <2>3, <2>4, <2>5 DEF Gossip
<1>4. ASSUME NEW a \in Peers, NEW p \in Peers, Reseed(a, p) \/ Evict(a, p)
      PROVE  DirectoriesTrue' /\ PayloadsTrue'
  <2>1. call' = call
    BY <1>4 DEF Reseed, Evict, gossip
  <2>2. \A q \in Peers : dir'[a][q] \in {None, dir[a][q], addr[q]}
    BY <1>4 DEF Reseed, Evict, evict_revoked, insert, TruthInv, GossipTypeOK, Directory
  <2>3. \A b \in Peers \ {a} : dir'[b] = dir[b]
    BY <1>4 DEF Reseed, Evict, evict_revoked, TruthInv, GossipTypeOK
  <2> QED BY <2>1, <2>2, <2>3 DEF TruthInv, DirectoriesTrue, PayloadsTrue, Truthful
<1>5. ASSUME NEW a \in Peers, NEW ep \in Addrs, Restart(a, ep)
      PROVE  DirectoriesTrue' /\ PayloadsTrue'
  <2>1. Truthful(Bootstrap(a))
    BY <1>1, BootstrapIs DEF TruthInv, GossipTypeOK, Truthful
  <2>2. DirectoriesTrue'
    BY <1>5, <2>1 DEF Restart, TruthInv, GossipTypeOK, DirectoriesTrue, Truthful
  <2>3. \A b \in Peers : call'[b] \in {Idle, call[b]}
    BY <1>5 DEF Restart
  <2>4. PayloadsTrue'
    BY <2>3 DEF TruthInv, PayloadsTrue, Idle
  <2> QED BY <2>2, <2>4
<1> QED BY <1>1, <1>2, <1>3, <1>4, <1>5 DEF GossipNext, TruthInv

(* mesh_sync_integration.rs:683-694: while nobody moves, no agent is told of  *)
(* an address that is not right, even through restarts and evictions: the   *)
(* directories cannot settle on anything but the truth.                     *)
THEOREM GossipSpreadsTheTruth == GossipSpec /\ []AtHome => []DirectoriesTrue
<1>1. GossipInit => TruthInv
  <2> SUFFICES ASSUME GossipInit PROVE TruthInv
    OBVIOUS
  <2>1. DirectoriesTrue
    BY DiscoveryAssumption DEF GossipInit, Empty, DirectoriesTrue, Truthful
  <2> QED BY <2>1, GossipInitTypes DEF GossipInit, TruthInv, PayloadsTrue, Idle
<1>2. TruthInv => DirectoriesTrue
  BY DEF TruthInv
<1> QED BY <1>1, <1>2, NextTruth, PTL DEF GossipSpec
=============================================================================
