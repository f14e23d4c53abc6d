--------------------------- MODULE StoreForwardProofs ---------------------------
(***************************************************************************)
(* StoreForward keeps the promise of Custody when no two bundles share a   *)
(* nonce, for any bundles, bounds and behaviour of the link.  The queue is *)
(* searched by nonce alone, so everything rests on a nonce naming one      *)
(* bundle; then the index and the wire never mix destinations up (Routed), *)
(* and a destination has seen the nonce of whatever it took (Remembered).  *)
(***************************************************************************)
EXTENDS StoreForward, TLAPS

DistinctNonces == \A b, c \in Bundles : b.nonce = c.nonce => b = c

Routed ==
    /\ RightDoor
    /\ \A u \in undelivered : \E b \in Bundles : u.dest = b.dest /\ u.nonce = b.nonce
    /\ \A g \in handed : g.to = g.bundle.dest

Remembered == \A g \in got : <<g.to, g.bundle.nonce>> \in seen

CourierInv == TypeOK /\ Routed /\ Remembered

LEMMA InitCourier ==
  ASSUME Init
  PROVE  CourierInv
<1>1. up \in BOOLEAN
  BY DEF Init
<1>2. TypeOK
  BY <1>1 DEF Init, TypeOK
<1>3. Routed /\ Remembered
  BY DEF Init, Routed, RightDoor, Remembered
<1> QED BY <1>2, <1>3 DEF CourierInv

LEMMA ExpiresType == \A b \in Bundles : b.expires \in Nat /\ b.dest \in Dests /\ b.nonce \in Nonces
  BY BundlesAssumption DEF Dests, Nonces

(* Under distinct nonces, what dequeue_for(dest) finds is for dest.         *)
LEMMA DequeuedIsRouted ==
  ASSUME DistinctNonces, CourierInv, NEW u \in undelivered, NEW e \in queue, IsFirst(e, u.nonce)
  PROVE  e.bundle \in Bundles /\ e.bundle.dest = u.dest
<1>1. e.bundle \in Bundles /\ e.bundle.nonce = u.nonce
  BY DEF CourierInv, TypeOK, Entry, IsFirst, IsOldest
<1>2. PICK b \in Bundles : u.dest = b.dest /\ u.nonce = b.nonce
  BY DEF CourierInv, Routed
<1> QED BY <1>1, <1>2 DEF DistinctNonces

LEMMA NextCourier ==
  ASSUME DistinctNonces, CourierInv, [Next]_vars
  PROVE  CourierInv'
<1> USE DEF CourierInv
<1>1. ASSUME NEW b \in Bundles, enqueue(b) PROVE CourierInv'
  <2> DEFINE e == [bundle |-> b, at |-> enqueued]
             u == [dest |-> b.dest, nonce |-> b.nonce, at |-> enqueued]
  <2>1. /\ queue' = queue \cup {e} /\ undelivered' = undelivered \cup {u}
        /\ enqueued' = enqueued + 1
        /\ UNCHANGED <<up, replay, wire, drops, seen, got, handed, again, restarts,
                       given, clock, pulls>>
    BY <1>1 DEF enqueue, link, dests
  <2>2. e \in Entry /\ u \in IndexEntry /\ u.dest = b.dest /\ u.nonce = b.nonce
    BY ExpiresType DEF TypeOK, Entry, IndexEntry
  <2> HIDE DEF e, u
  <2>3. TypeOK'
    BY <2>1, <2>2 DEF TypeOK
  <2>4. Routed' /\ Remembered'
    BY <2>1, <2>2 DEF Routed, RightDoor, Remembered
  <2> QED BY <2>3, <2>4
<1>2. ASSUME NEW dest \in Dests, dequeue_for(dest) PROVE CourierInv'
  <2>1. PICK u \in undelivered, e \in queue :
            /\ u.dest = dest /\ IsFirst(e, u.nonce)
            /\ queue' = queue \ {e} /\ undelivered' = Unindexed(dest, u.nonce)
            /\ given' = given \cup {e.bundle}
            /\ wire' = wire \cup {[bundle |-> e.bundle, to |-> dest]}
    BY <1>2 DEF dequeue_for, IsOldest
  <2>2. /\ pulls' = pulls + 1
        /\ UNCHANGED <<enqueued, up, replay, drops, seen, got, handed, again, restarts, clock>>
    BY <1>2 DEF dequeue_for, dests
  <2>3. e.bundle \in Bundles /\ e.bundle.dest = dest
    BY <2>1, DequeuedIsRouted
  <2> DEFINE d == [bundle |-> e.bundle, to |-> dest]
  <2>4. d \in Delivery /\ d.to = d.bundle.dest /\ wire' = wire \cup {d}
    BY <2>1, <2>3 DEF Delivery
  <2> HIDE DEF d
  <2>5. undelivered' \subseteq undelivered /\ queue' \subseteq queue
    BY <2>1 DEF Unindexed
  <2>6. TypeOK'
    BY <2>1, <2>2, <2>3, <2>4, <2>5 DEF TypeOK
  <2>7. Routed' /\ Remembered'
    BY <2>2, <2>4, <2>5 DEF Routed, RightDoor, Remembered
  <2> QED BY <2>6, <2>7
<1>3. ASSUME NEW d \in Delivery, Receive(d) PROVE CourierInv'
  <2>1. /\ d \in wire /\ wire' = wire \ {d}
        /\ UNCHANGED <<queue, undelivered, enqueued, up, replay, drops, restarts,
                       given, clock, pulls>>
    BY <1>3 DEF Receive, store
  <2>2. d.to \in Dests /\ d.bundle.nonce \in Nonces /\ d.to = d.bundle.dest
    BY <2>1, ExpiresType DEF Delivery, Routed, RightDoor
  <2>3. CASE Fresh(d)
    <3>1. /\ seen' = seen \cup {<<d.to, d.bundle.nonce>>} /\ got' = got \cup {d}
          /\ handed' = handed \cup {d} /\ again' = again \cup ({d} \cap got)
      BY <1>3, <2>3 DEF Receive
    <3>2. TypeOK'
      BY <2>1, <2>2, <3>1 DEF TypeOK
    <3>3. Routed' /\ Remembered'
      BY <2>1, <2>2, <3>1 DEF Routed, RightDoor, Remembered
    <3> QED BY <3>2, <3>3
  <2>4. CASE ~Fresh(d)
    <3>1. UNCHANGED <<seen, got, handed, again>>
      BY <1>3, <2>4 DEF Receive
    <3> QED BY <2>1, <3>1 DEF TypeOK, Routed, RightDoor, Remembered
  <2> QED BY <2>3, <2>4
<1>4. ASSUME NEW dest \in Dests, Restart(dest) PROVE CourierInv'
  <2>1. /\ seen' = {s \in seen : s[1] # dest} /\ got' = {g \in got : g.to # dest}
        /\ restarts' = restarts + 1
        /\ UNCHANGED <<queue, undelivered, enqueued, up, replay, wire, drops,
                       handed, again, given, clock, pulls>>
    BY <1>4 DEF Restart, store, link
  <2>2. TypeOK'
    BY <2>1 DEF TypeOK
  <2>3. Routed' /\ Remembered'
    BY <2>1 DEF Routed, RightDoor, Remembered
  <2> QED BY <2>2, <2>3
<1>5. ASSUME Acknowledge \/ expire PROVE CourierInv'
  <2>1. /\ queue' \subseteq queue /\ undelivered' \subseteq undelivered
        /\ UNCHANGED <<enqueued, up, replay, wire, drops, seen, got, handed, again, restarts,
                       given, clock, pulls>>
    BY <1>5 DEF Acknowledge, ack, expire, Unindexed, link, dests
  <2> QED BY <2>1 DEF TypeOK, Routed, RightDoor, Remembered
<1>6. ASSUME retry_oldest_first PROVE CourierInv'
  BY <1>6 DEF retry_oldest_first, store, dests, TypeOK, Routed, RightDoor, Remembered
<1>7. ASSUME Send PROVE CourierInv'
  <2>1. PICK e \in replay :
            /\ replay' = replay \ {e}
            /\ wire' = wire \cup {[bundle |-> e.bundle, to |-> e.bundle.dest]}
    BY <1>7 DEF Send
  <2>2. UNCHANGED <<queue, undelivered, enqueued, up, drops, seen, got, handed, again,
                    restarts, given, clock, pulls>>
    BY <1>7 DEF Send, store, dests
  <2>3. e.bundle \in Bundles /\ e.bundle.dest \in Dests
    BY ExpiresType DEF TypeOK, Entry
  <2> DEFINE d == [bundle |-> e.bundle, to |-> e.bundle.dest]
  <2>4. d \in Delivery /\ d.to = d.bundle.dest /\ wire' = wire \cup {d}
    BY <2>1, <2>3 DEF Delivery
  <2> HIDE DEF d
  <2> QED BY <2>1, <2>2, <2>4 DEF TypeOK, Routed, RightDoor, Remembered
<1>8. ASSUME Drop PROVE CourierInv'
  <2>1. /\ replay' = {} /\ wire' = {} /\ drops' = drops + 1
        /\ UNCHANGED <<queue, undelivered, enqueued, seen, got, handed, again, restarts,
                       given, clock, pulls>>
    BY <1>8 DEF Drop, store, dests
  <2>2. up' \in BOOLEAN
    BY <1>8 DEF Drop
  <2>3. TypeOK'
    BY <2>1, <2>2 DEF TypeOK
  <2>4. Routed' /\ Remembered'
    BY <2>1 DEF Routed, RightDoor, Remembered
  <2> QED BY <2>3, <2>4
<1>9. ASSUME Tick PROVE CourierInv'
  BY <1>9 DEF Tick, store, link, dests, TypeOK, Routed, RightDoor, Remembered
<1>10. ASSUME UNCHANGED vars PROVE CourierInv'
  BY <1>10 DEF vars, store, link, dests, TypeOK, Routed, RightDoor, Remembered
<1> QED BY <1>1, <1>2, <1>3, <1>4, <1>5, <1>6, <1>7, <1>8, <1>9, <1>10 DEF Next

LEMMA HeldType == ASSUME TypeOK PROVE Held \subseteq Bundles
  BY DEF TypeOK, Held, Entry

(* The entries of one bundle go from the queue: the bundle goes, or a copy  *)
(* of it stays.                                                             *)
LEMMA HeldLess ==
  ASSUME NEW b, queue' \subseteq queue, \A e \in queue \ queue' : e.bundle = b
  PROVE  Held' \in {Held, Held \ {b}}
<1>1. Held' = {e.bundle : e \in queue'} /\ Held = {e.bundle : e \in queue}
  BY DEF Held
<1>2. CASE b \in Held'
  <2>1. Held' = Held
    BY <1>1, <1>2
  <2> QED BY <2>1
<1>3. CASE b \notin Held'
  <2>1. Held' = Held \ {b}
    BY <1>1, <1>3
  <2> QED BY <2>1
<1> QED BY <1>2, <1>3

LEMMA EnqueueTakes ==
  ASSUME NEW b \in Bundles, enqueue(b)
  PROVE  Promise!Take(b)
<1> DEFINE new == [bundle |-> b, at |-> enqueued]
<1>1. queue' = queue \cup {new}
  BY DEF enqueue
<1>2. new.bundle = b
  OBVIOUS
<1> HIDE DEF new
<1>3. Held' = Held \cup {b}
  <2>1. Held' = {e.bundle : e \in queue'} /\ Held = {e.bundle : e \in queue}
    BY DEF Held
  <2>2. Held' \subseteq Held \cup {b}
    BY <1>1, <1>2, <2>1
  <2>3. Held \cup {b} \subseteq Held'
    BY <1>1, <1>2, <2>1
  <2> QED BY <2>2, <2>3
<1> QED BY <1>3 DEF enqueue, dests, Promise!Take

LEMMA DequeueGives ==
  ASSUME DistinctNonces, CourierInv, NEW dest \in Dests, dequeue_for(dest)
  PROVE  \E b \in Bundles : Promise!Give(b)
<1>1. PICK u \in undelivered, e \in queue :
          IsFirst(e, u.nonce) /\ queue' = queue \ {e} /\ given' = given \cup {e.bundle}
  BY DEF dequeue_for
<1>2. e.bundle \in Bundles
  BY <1>1, DequeuedIsRouted
<1>3. Held' \in {Held, Held \ {e.bundle}}
  BY <1>1, HeldLess
<1>4. UNCHANGED <<clock, got, handed, again>>
  BY DEF dequeue_for, dests
<1> QED BY <1>1, <1>2, <1>3, <1>4 DEF Promise!Give

LEMMA AckReleases ==
  ASSUME DistinctNonces, CourierInv, Acknowledge
  PROVE  UNCHANGED Promise!vars \/ \E b \in Bundles : Promise!Release(b)
<1>1. PICK g \in handed : ack(g.to, g.bundle.nonce)
  BY DEF Acknowledge
<1>2. /\ queue' = {e \in queue : ~IsFirst(e, g.bundle.nonce)}
      /\ UNCHANGED <<clock, given, got, handed, again>>
  BY <1>1 DEF ack, dests
<1>3. g.bundle \in Bundles /\ g = [bundle |-> g.bundle, to |-> g.bundle.dest]
  BY DEF CourierInv, TypeOK, Routed, Delivery
<1>4. \A e \in queue \ queue' : e.bundle = g.bundle
  <2> SUFFICES ASSUME NEW e \in queue, IsFirst(e, g.bundle.nonce) PROVE e.bundle = g.bundle
    BY <1>2
  <2>1. e.bundle \in Bundles /\ e.bundle.nonce = g.bundle.nonce
    BY DEF CourierInv, TypeOK, Entry, IsFirst, IsOldest
  <2> QED BY <1>3, <2>1 DEF DistinctNonces
<1>5. Held' \in {Held, Held \ {g.bundle}}
  BY <1>2, <1>4, HeldLess
<1>6. CASE Held' = Held
  BY <1>2, <1>6 DEF Promise!vars
<1>7. CASE Held' = Held \ {g.bundle}
  <2>1. Promise!Release(g.bundle)
    BY <1>2, <1>3, <1>7 DEF Promise!Release, Promise!Delivery
  <2> QED BY <1>3, <2>1
<1> QED BY <1>5, <1>6, <1>7

LEMMA ExpireDiscards ==
  ASSUME CourierInv, expire
  PROVE  \E S \in SUBSET Bundles : Promise!Discard(S)
<1> DEFINE S == {b \in Held : Expired(b)}
<1>1. queue' = {e \in queue : ~Expired(e.bundle)} /\ UNCHANGED <<clock, given, got, handed, again>>
  BY DEF expire, dests
<1>2. Held' = Held \ S
  BY <1>1 DEF Held
<1>3. S \in SUBSET Bundles
  BY HeldType DEF CourierInv
<1>4. \A b \in S : b.expires < clock
  BY DEF Expired
<1> HIDE DEF S
<1>5. Promise!Discard(S)
  BY <1>1, <1>2, <1>4 DEF Promise!Discard
<1> QED BY <1>3, <1>5

LEMMA ReceiveHandsOver ==
  ASSUME CourierInv, NEW d \in Delivery, Receive(d)
  PROVE  UNCHANGED Promise!vars \/ \E b \in Bundles : Promise!HandOver(b)
<1>1. d \in wire /\ UNCHANGED <<queue, given, clock>>
  BY DEF Receive, store
<1>2. d.bundle \in Bundles /\ d = [bundle |-> d.bundle, to |-> d.bundle.dest]
  BY <1>1 DEF CourierInv, Routed, RightDoor, Delivery
<1>3. Held' = Held
  BY <1>1 DEF Held
<1>4. CASE Fresh(d)
  <2>1. d \notin got
    BY <1>4 DEF CourierInv, Remembered, Fresh
  <2>2. got' = got \cup {d} /\ handed' = handed \cup {d} /\ again' = again
    BY <1>4, <2>1 DEF Receive
  <2>3. Promise!Delivery(d.bundle) = d
    BY <1>2 DEF Promise!Delivery
  <2>4. Promise!HandOver(d.bundle)
    BY <1>1, <1>3, <2>1, <2>2, <2>3 DEF Promise!HandOver
  <2> QED BY <1>2, <2>4
<1>5. CASE ~Fresh(d)
  BY <1>1, <1>3, <1>5 DEF Receive, Promise!vars
<1> QED BY <1>4, <1>5

LEMMA StepKeepsPromise ==
  ASSUME DistinctNonces, CourierInv, [Next]_vars
  PROVE  [Promise!Next]_(Promise!vars)
<1>1. ASSUME NEW b \in Bundles, enqueue(b) PROVE Promise!Next
  BY <1>1, EnqueueTakes DEF Promise!Next
<1>2. ASSUME NEW dest \in Dests, dequeue_for(dest) PROVE Promise!Next
  BY <1>2, DequeueGives DEF Promise!Next
<1>3. ASSUME NEW dest \in Dests, Restart(dest) PROVE Promise!Next
  <2>1. PICK b \in Bundles : dest = b.dest
    BY DEF Dests
  <2>2. Held' = Held
    BY <1>3 DEF Restart, store, Held
  <2>3. Promise!Restart(b.dest)
    BY <1>3, <2>1, <2>2 DEF Restart, Promise!Restart
  <2> QED BY <2>3 DEF Promise!Next
<1>4. ASSUME NEW d \in Delivery, Receive(d) PROVE [Promise!Next]_(Promise!vars)
  BY <1>4, ReceiveHandsOver DEF Promise!Next
<1>5. ASSUME Acknowledge PROVE [Promise!Next]_(Promise!vars)
  BY <1>5, AckReleases DEF Promise!Next
<1>6. ASSUME expire PROVE Promise!Next
  BY <1>6, ExpireDiscards DEF Promise!Next
<1>7. ASSUME Tick PROVE Promise!Next
  <2>1. Held' = Held
    BY <1>7 DEF Tick, store, Held
  <2>2. Promise!Tick
    BY <1>7, <2>1 DEF Tick, dests, Promise!Tick
  <2> QED BY <2>2 DEF Promise!Next
<1>8. ASSUME retry_oldest_first \/ Send \/ Drop \/ UNCHANGED vars PROVE UNCHANGED Promise!vars
  <2>1. UNCHANGED <<queue, clock, given, got, handed, again>>
    BY <1>8 DEF retry_oldest_first, Send, Drop, vars, store, dests
  <2>2. Held' = Held
    BY <2>1 DEF Held
  <2> QED BY <2>1, <2>2 DEF Promise!vars
<1> QED BY <1>1, <1>2, <1>3, <1>4, <1>5, <1>6, <1>7, <1>8 DEF Next

(* No two bundles sharing a nonce, the queue, its index and the courier     *)
(* implement the promise of the overlay.                                    *)
THEOREM CourierKeepsPromise ==
  ASSUME DistinctNonces
  PROVE  Spec => KeepsPromise
<1>1. Init => Promise!Init
  BY DEF Init, Promise!Init, Held
<1>2. Init => CourierInv
  BY InitCourier
<1>3. CourierInv /\ [Next]_vars => CourierInv'
  BY NextCourier
<1>4. CourierInv /\ [Next]_vars => [Promise!Next]_(Promise!vars)
  BY StepKeepsPromise
<1> QED BY <1>1, <1>2, <1>3, <1>4, PTL DEF Spec, KeepsPromise, Promise!Spec

(* Under the same assumption, what dequeue_for returns for a destination    *)
(* and what a replay sends is on its way to the bundle's own destination.   *)
THEOREM CourierRoutes ==
  ASSUME DistinctNonces
  PROVE  Spec => [](TypeOK /\ RightDoor)
<1>1. CourierInv => TypeOK /\ RightDoor
  BY DEF CourierInv, Routed
<1>2. Init => CourierInv
  BY InitCourier
<1>3. CourierInv /\ [Next]_vars => CourierInv'
  BY NextCourier
<1> QED BY <1>1, <1>2, <1>3, PTL DEF Spec

-----------------------------------------------------------------------------
(* What goes from the queue by its nonce is what goes from the index: under *)
(* distinct nonces an entry of one destination never stands for another's.  *)
LEMMA StepKeepsOwed ==
  ASSUME DistinctNonces, CourierInv, ReplayedUntilAcked, [Next]_vars
  PROVE  ReplayedUntilAcked'
<1> SUFFICES ASSUME NEW u \in undelivered'
             PROVE  \E e \in queue' : e.bundle.dest = u.dest /\ e.bundle.nonce = u.nonce
  BY DEF ReplayedUntilAcked
<1>1. CASE u \notin undelivered
  <2>1. ASSUME NEW dest \in Dests, dequeue_for(dest) PROVE FALSE
    BY <2>1, <1>1 DEF dequeue_for, Unindexed
  <2>2. ~Acknowledge /\ ~expire
    BY <1>1 DEF Acknowledge, ack, expire, Unindexed
  <2>3. undelivered' # undelivered
    BY <1>1
  <2>4. PICK b \in Bundles : enqueue(b)
    BY <2>1, <2>2, <2>3 DEF Next, Restart, Receive, retry_oldest_first, Send, Drop, Tick, vars, store
  <2> DEFINE e == [bundle |-> b, at |-> enqueued]
  <2>5. e \in queue' /\ e.bundle.dest = u.dest /\ e.bundle.nonce = u.nonce
    BY <2>4, <1>1 DEF enqueue
  <2> QED BY <2>5
<1>2. CASE u \in undelivered
  <2>1. PICK e \in queue : e.bundle.dest = u.dest /\ e.bundle.nonce = u.nonce
    BY <1>2 DEF ReplayedUntilAcked
  <2>2. CASE e \in queue'
    BY <2>1, <2>2
  <2>3. CASE e \notin queue'
    <3>1. ASSUME NEW dest \in Dests, dequeue_for(dest) PROVE FALSE
      <4>1. PICK v \in undelivered, f \in queue :
                /\ v.dest = dest /\ IsFirst(f, v.nonce) /\ queue' = queue \ {f}
                /\ undelivered' = Unindexed(dest, v.nonce)
        BY <3>1 DEF dequeue_for, IsOldest
      <4>2. e = f /\ e.bundle.nonce = v.nonce /\ e.bundle.dest = dest
        BY <4>1, <2>3, DequeuedIsRouted DEF IsFirst, IsOldest
      <4> QED BY <4>1, <4>2, <2>1 DEF Unindexed
    <3>2. ASSUME Acknowledge PROVE FALSE
      <4>1. PICK g \in handed : ack(g.to, g.bundle.nonce)
        BY <3>2 DEF Acknowledge
      <4>2. e.bundle \in Bundles /\ g.bundle \in Bundles /\ g.to = g.bundle.dest
        BY DEF CourierInv, TypeOK, Entry, Delivery, Routed
      <4>3. e.bundle.nonce = g.bundle.nonce
        BY <4>1, <2>3 DEF ack, IsFirst, IsOldest
      <4>4. e.bundle = g.bundle
        BY <4>2, <4>3 DEF DistinctNonces
      <4> QED BY <4>1, <4>2, <4>4, <2>1 DEF ack, Unindexed
    <3>3. ASSUME expire PROVE FALSE
      BY <3>3, <2>1, <2>3 DEF expire
    <3>4. queue \subseteq queue' \/ Acknowledge \/ expire \/ \E dest \in Dests : dequeue_for(dest)
      BY DEF Next, enqueue, Restart, Receive, retry_oldest_first, Send, Drop, Tick, vars, store
    <3> QED BY <2>3, <3>1, <3>2, <3>3, <3>4
  <2> QED BY <2>2, <2>3
<1> QED BY <1>1, <1>2

(* Under the same assumption, a bundle that the index owes a destination is *)
(* in the queue, whatever was acknowledged, pulled or expired before.       *)
THEOREM CourierReplays ==
  ASSUME DistinctNonces
  PROVE  Spec => []ReplayedUntilAcked
<1>1. Init => CourierInv /\ ReplayedUntilAcked
  BY InitCourier DEF Init, ReplayedUntilAcked
<1>2. CourierInv /\ ReplayedUntilAcked /\ [Next]_vars => CourierInv' /\ ReplayedUntilAcked'
  BY NextCourier, StepKeepsOwed
<1> QED BY <1>1, <1>2, PTL DEF Spec
=============================================================================
