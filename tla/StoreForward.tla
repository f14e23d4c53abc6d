----------------------------- MODULE StoreForward -----------------------------
(***************************************************************************)
(* The store-and-forward queue of bebop2/proto-wire/src/bpv7.rs, and a     *)
(* courier that uses it as the module's doc and its first test do: replay  *)
(* what is queued oldest first whenever the link is there, acknowledge     *)
(* what a destination has taken.  Destinations drop a nonce they have seen.*)
(*                                                                         *)
(* Queue and index are sequences in the code.  Here their entries carry    *)
(* the place at which they were appended, and the oldest is the one with   *)
(* the lowest place.  Of a bundle only destination, nonce and the sum      *)
(* creation_ts + lifetime matter.                                          *)
(***************************************************************************)
EXTENDS Naturals

CONSTANTS
    Bundles,      \* bundles that are offered
    MaxEnqueued,  \* bound: calls of enqueue
    MaxPulls,     \* bound: calls of dequeue_for
    MaxDrops,     \* bound: how often the link breaks
    MaxRestarts,  \* bound: how often a destination starts again
    MaxClock      \* bound on the clock

ASSUME BundlesAssumption == \A b \in Bundles : b.expires \in Nat

VARIABLES
    queue,        \* StoreForward.queue
    undelivered,  \* StoreForward.undelivered
    enqueued,     \* the place of the next entry
    up,           \* the link is there
    replay,       \* what the courier still has to send of its last snapshot
    wire,         \* bundles on their way
    seen,         \* per destination and nonce: the destination has seen it
    got,          \* deliveries since the destination started
    handed,       \* history: all deliveries
    again,        \* history: what a destination took that it already had
    given,        \* history: what dequeue_for returned
    clock, pulls, drops, restarts

store == <<queue, undelivered, enqueued>>
link == <<up, replay, wire, drops>>
dests == <<seen, got, handed, again, restarts>>
vars == <<store, link, dests, given, clock, pulls>>

Dests == {b.dest : b \in Bundles}
Nonces == {b.nonce : b \in Bundles}

Entry == [bundle : Bundles, at : Nat]
IndexEntry == [dest : Dests, nonce : Nonces, at : Nat]
Delivery == [bundle : Bundles, to : Dests]

Init ==
    /\ queue = {} /\ undelivered = {} /\ enqueued = 0
    /\ up = FALSE /\ replay = {} /\ wire = {}
    /\ seen = {} /\ got = {} /\ handed = {} /\ again = {} /\ given = {}
    /\ clock = 0 /\ pulls = 0 /\ drops = 0 /\ restarts = 0

IsOldest(e, S) == e \in S /\ \A f \in S : e.at <= f.at

\* mutant of IsFirst: the front of the queue, whatever its nonce
IsFrontmost(e, nonce) == IsOldest(e, queue)

(* The position of a nonce in the queue: of the first bundle that has it,   *)
(* whatever its destination.                                                *)
IsFirst(e, nonce) == IsOldest(e, {f \in queue : f.bundle.nonce = nonce})

enqueue(b) ==
    /\ enqueued < MaxEnqueued
    /\ queue' = queue \cup {[bundle |-> b, at |-> enqueued]}
    /\ undelivered' = undelivered \cup {[dest |-> b.dest, nonce |-> b.nonce, at |-> enqueued]}
    /\ enqueued' = enqueued + 1
    /\ UNCHANGED <<link, dests, given, clock, pulls>>

Unindexed(dest, nonce) == {u \in undelivered : ~(u.dest = dest /\ u.nonce = nonce)}

(* dequeue_for, when it finds a bundle; the caller sends it to dest, once.  *)
dequeue_for(dest) ==
    /\ up /\ pulls < MaxPulls
    /\ \E u \in undelivered, e \in queue :
           /\ IsOldest(u, {v \in undelivered : v.dest = dest})
           /\ IsFirst(e, u.nonce)
           /\ queue' = queue \ {e}
           /\ undelivered' = Unindexed(dest, u.nonce)
           /\ given' = given \cup {e.bundle}
           /\ wire' = wire \cup {[bundle |-> e.bundle, to |-> dest]}
    /\ pulls' = pulls + 1
    /\ UNCHANGED <<enqueued, up, replay, drops, dests, clock>>

\* mutant of ack: the entry at the front of the queue goes
ack_front(dest, nonce) ==
    /\ queue' = {e \in queue : ~IsOldest(e, queue)}
    /\ undelivered' = Unindexed(dest, nonce)
    /\ UNCHANGED <<enqueued, link, dests, given, clock, pulls>>

\* mutant of ack: the bundle stays in the queue
ack_index_only(dest, nonce) ==
    /\ undelivered' = Unindexed(dest, nonce)
    /\ UNCHANGED <<queue, enqueued, link, dests, given, clock, pulls>>

(* ack, and mark_delivered: the index of dest and the first bundle with the *)
(* nonce.  The courier calls it for what a destination has taken.           *)
ack(dest, nonce) ==
    /\ queue' = {e \in queue : ~IsFirst(e, nonce)}
    /\ undelivered' = Unindexed(dest, nonce)
    /\ UNCHANGED <<enqueued, link, dests, given, clock, pulls>>

Acknowledge == \E g \in handed : ack(g.to, g.bundle.nonce)

(* creation_ts + lifetime < now                                             *)
Expired(b) == b.expires < clock

expire ==
    LET dropped == {e.bundle.nonce : e \in {f \in queue : Expired(f.bundle)}} IN
    /\ queue' = {e \in queue : ~Expired(e.bundle)}
    /\ undelivered' = {u \in undelivered : u.nonce \notin dropped}
    /\ UNCHANGED <<enqueued, link, dests, given, clock, pulls>>

(* (Re)connect if need be, and take a snapshot of the queue.                *)
retry_oldest_first ==
    /\ replay = {} /\ queue # {}
    /\ up' = TRUE
    /\ replay' = queue
    /\ UNCHANGED <<store, wire, drops, dests, given, clock, pulls>>

(* The next bundle of the snapshot, on the new channel.                     *)
Send ==
    /\ up
    /\ \E e \in replay :
           /\ IsOldest(e, replay)
           /\ replay' = replay \ {e}
           /\ wire' = wire \cup {[bundle |-> e.bundle, to |-> e.bundle.dest]}
    /\ UNCHANGED <<store, up, drops, dests, given, clock, pulls>>

Fresh(d) == <<d.to, d.bundle.nonce>> \notin seen

(* The destination takes what is fresh and drops the rest.                  *)
Receive(d) ==
    /\ d \in wire
    /\ wire' = wire \ {d}
    /\ IF Fresh(d)
       THEN /\ seen' = seen \cup {<<d.to, d.bundle.nonce>>}
            /\ got' = got \cup {d}
            /\ handed' = handed \cup {d}
            /\ again' = again \cup ({d} \cap got)
       ELSE UNCHANGED <<seen, got, handed, again>>
    /\ UNCHANGED <<store, up, replay, drops, restarts, given, clock, pulls>>

(* The radio drops, in the middle of a transfer or not.                     *)
Drop ==
    /\ up /\ drops < MaxDrops
    /\ up' = FALSE /\ replay' = {} /\ wire' = {}
    /\ drops' = drops + 1
    /\ UNCHANGED <<store, dests, given, clock, pulls>>

Restart(dest) ==
    /\ restarts < MaxRestarts
    /\ seen' = {s \in seen : s[1] # dest}
    /\ got' = {g \in got : g.to # dest}
    /\ restarts' = restarts + 1
    /\ UNCHANGED <<store, link, handed, again, given, clock, pulls>>

Tick ==
    /\ clock < MaxClock
    /\ clock' = clock + 1
    /\ UNCHANGED <<store, link, dests, given, pulls>>

Next ==
    \/ \E b \in Bundles : enqueue(b)
    \/ \E dest \in Dests : dequeue_for(dest) \/ Restart(dest)
    \/ \E d \in Delivery : Receive(d)
    \/ Acknowledge \/ expire \/ retry_oldest_first \/ Send \/ Drop \/ Tick

Spec == Init /\ [][Next]_vars

(* The courier keeps reconnecting and replaying, what is on the wire of a   *)
(* link that holds arrives, and it hears of every delivery.                 *)
FairSpec ==
    /\ Spec /\ WF_vars(retry_oldest_first) /\ WF_vars(Send)
    /\ \A d \in Delivery : WF_vars(Receive(d))
    /\ \A d \in Delivery : WF_vars(d \in handed /\ ack(d.to, d.bundle.nonce))

-----------------------------------------------------------------------------
TypeOK ==
    /\ queue \subseteq Entry /\ undelivered \subseteq IndexEntry /\ enqueued \in Nat
    /\ up \in BOOLEAN /\ replay \subseteq Entry /\ wire \subseteq Delivery
    /\ seen \subseteq Dests \X Nonces
    /\ got \subseteq Delivery /\ handed \subseteq Delivery
    /\ again \subseteq Delivery /\ given \subseteq Bundles
    /\ clock \in Nat /\ pulls \in Nat /\ drops \in Nat /\ restarts \in Nat

Held == {e.bundle : e \in queue}

Promise == INSTANCE Custody WITH held <- Held

(* bpv7.rs:11-26: the overlay keeps the promise of Custody: nothing leaves  *)
(* it unless its own destination took it or it expired, and nothing is      *)
(* taken twice.                                                             *)
KeepsPromise == Promise!Spec

(* bpv7.rs:199-201: dequeue_for returns a bundle "for `dest`": whatever is  *)
(* on the wire is on the way to its own destination.                        *)
RightDoor == \A d \in wire : d.to = d.bundle.dest

(* bpv7.rs:169-171: until it is acknowledged a bundle is replayed on every  *)
(* reconnect: what the index still owes a destination is in the queue.      *)
ReplayedUntilAcked ==
    \A u \in undelivered : \E e \in queue :
        e.bundle.dest = u.dest /\ e.bundle.nonce = u.nonce

(* bpv7.rs:21-24: a bundle is replayed until it is acknowledged: custody of *)
(* a bundle ends, and only with its delivery, its expiry or a pull.         *)
Settled ==
    \A b \in Bundles :
        b \in Held ~> /\ b \notin Held
                      /\ [bundle |-> b, to |-> b.dest] \in handed \/ Expired(b) \/ b \in given
=============================================================================
