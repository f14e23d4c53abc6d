# Verification of the bebop2 mesh protocol

TLA+ modules, TLC runs and TLAPS proofs for the core of this repository: the Rust crates under
`src/bebop2/` with which a food-delivery hub and its peers authorize each other's frames, order the
changes of an order, and keep their event sets in step over bad links.

- `PROJECT.json` lists the components, the runs, the theorems, the hazards, and for every
  definition the source lines it stands for.
- Model checking: `tlc -workers 2 -config X.cfg M`, with `M` and `X.cfg` from the table below.
- Proofs: `tlapm XProofs.tla` for each of the eight `*Proofs` modules.

## 1. The system

A **node** (hub) boots from a genesis file, which enrolls anchors (keys that root authority) and
kill anchors, and a policy file. It accepts **connections** over WSS, stdio and QUIC. Every inbound
frame goes through the receive path of its transport (replay ledger, then the hybrid gate with the
delegation chain), the node's DOD gate, and the order Law. Nodes exchange events by pull
anti-entropy, or by bundles that a courier stores and forwards. They find each other by gossip, and
limit what they accept and what an anchor may mint. Every hub finalizes the orders it has settled in
a hash chain of its own, and a merge compares the chains. A hash-chained event log is pulled from
node to node and kept on disk. An operator can edit the policy file while the node runs, whereupon
its listeners follow, and halt the node with a signed kill order.

| component | source | state | operations | what makes it correct |
|---|---|---|---|---|
| hub policy store | `mesh-node/src/hub_policy.rs` | the live policy, behind an RwLock | `apply_revision` (any thread), `load` | a revision never widens the red-line allow-list; numbers grow |
| operator kill switch | `mesh-node/src/kill_switch.rs` | replay ledger, running/halted | `verify`, `handle` | never halted without a durable snapshot or an anchor's order; one order, one effect |
| boot | `mesh-node/src/boot.rs` | what the others start from | `boot` | nothing in memory survives it |
| roster and delegation chains | `proto-cap/src/roster.rs`, `capability.rs` | the anchors; two loop variables | `verify_chain` | authority only by delegation from an anchor, and only narrower |
| frame gate | `proto-cap/src/hybrid_gate.rs`, `signed_frame.rs`, `revocation.rs` | bounded nonce set, revocation set | `check`, `revoke_key`, `revoke_capability`, `drop_anchor` | verify, then record; a nonce passes once |
| transports, replay ledger | `proto-wire/src/{wss,stdio,iroh}_transport.rs` | connections with copies of roster and revocations; a shared ledger | `connect`, `accept`, `recv`, `close`, `observe` | one delivery per nonce among connections that run at the same time |
| order mesh | `delivery-domain/src/{hub_ring,intake,lib}.rs`, `mesh-node/src/dod.rs` | per hub: order status, DOD set, nonce set | `owner_hub`, `emit`, `admit_and_fold`, `admit` | one writer per order; all hubs agree |
| pull anti-entropy | `proto-wire/src/sync_pull.rs` | frames, watermark per actor | `local_commit`, `make_pull_request`, `pull`, `ingest` | nothing is left behind a watermark; everything arrives |
| store-and-forward | `proto-wire/src/bpv7.rs` | queue, index of undelivered nonces | `enqueue`, `dequeue_for`, `ack`, `expire`, `retry_oldest_first` | custody until delivery or expiry; right destination |
| finalization and merge | `delivery-domain/src/finalization.rs` | per hub a chain of records; the merge's window | `Finalization::new`, `verify_chain`, `detect_conflict`, `reconcile` | a split is never merged, an accord never quarantined, a verdict never flips |
| token buckets | `proto-wire/src/{transport_policy,wss_transport}.rs` | tokens, time of the last grant | `try_acquire` (any task) | grants are bounded by capacity and time |
| discovery and gossip | `proto-wire/src/discovery.rs` | peer directory, revocations | `tick`, `handle_conn`, `insert`, `merge`, `evict_revoked` | revoked peers stay away; directories converge |
| hot reload, reconciliation | `mesh-node/src/{hot_reload,listener_reconcile}.rs` | mtime last seen, open listeners | `changed`, `load`, `reconcile` | a good edit takes effect; listeners follow the live policy and only it |
| issuance budget | `proto-cap/src/node_id.rs` | a budget per epoch, by value | `can_issue`, `charge_issuance`, `sign_delegation_budgeted` | no more than the budget per epoch |
| event log | `core/src/{event_log,anti_entropy,at_rest}.rs` | hash-chained log, its file | `append`, `diff`, `replay`, `apply_pull`, `persist`, `restore` | one history everywhere; a crash costs a tail and nothing else |
| facades, event sink, breach alarm | `proto-cap/src/facade.rs`, `mesh-node/src/{node,breach}.rs` | the kernel behind the gates | `admit`, `dispatch` | nothing reaches the kernel past the gates |

Everything else (cryptography, field numerics, the agent CLI under `crates/bebop`, ports, codecs)
is listed in `PROJECT.json` with the reason for leaving it out.

**How they interact.** `recv` of a transport calls the gate, which calls `verify_chain` and reads
the connection's *copies* of roster and revocation set (shared state by cloning, not by reference).
The ledger is the only state that connections share, behind a mutex. `admit_and_fold` calls the DOD
gate, then a receiver's own hybrid gate, then the Law; the first two record what they let through
whether or not the third accepts it. The policy store is shared by threads through two separate
critical sections; the reload loop is one of those threads, and the reconciler works on a snapshot of the
policy they share. The kill switch calls out to an archiver in the middle of an operation. The
records that a merge compares are what the hubs of the order mesh have folded. A gossip tick copies
its targets, sends what the directory holds then, and merges the answer under another lock.

**What is hard here.** Check-then-act across two locks (policy); a callout between the spending of
an order and its effect (kill switch); concurrent verification of the same frame (ledger); stale
copies (revocation); frames duplicated and reordered ahead of stateful filters (order mesh); gaps
below a watermark (pull); an index that is searched by one key and written by another
(store-and-forward); bounded sets that forget half of themselves; an edge that is consumed before
what it announces has been done (hot reload); an answer that depends on the order of a window
(merge); evictions that race with exchanges under way (gossip); a clock that is read before the
lock, or set back (buckets, budgets); a file that is truncated before it is written again, and plans
that are older than the log they are applied to (event log).

## 2. The modules

| module | models | proofs | TLC root and configurations |
|---|---|---|---|
| `PolicyStore` | the two critical sections of `apply_revision` under any threads | `HubReloadProofs` | `PolicyStore`: `PolicyStore_widening.cfg` |
| `HubReload` | extends `PolicyStore`: policy file, watcher, reload loop, reconciler, listeners | `HubReloadProofs` | `MCHubReload`: `HubReload.cfg` |
| `KillSwitch` | `handle` in its three effects, crash, boot | `LimitsProofs` | `KillSwitch`: `KillSwitch.cfg` |
| `VerifyChain` | the loop of `verify_chain` | `VerifyChainProofs` | `MCVerifyChain`: `VerifyChain.cfg` |
| `FrameGate` | connections, ledger, gates, revocation, clock | `FrameGateProofs` | `MCFrameGate`: `FrameGate.cfg` |
| `OrderMesh` | one order on several hubs | `SettlementProofs` | `MCOrderMesh`: `OrderMesh.cfg` |
| `Settlement` | extends `OrderMesh`: finalizations of its hubs, and their merge | `SettlementProofs` | `MCSettlement`: `Settlement.cfg` |
| `SyncPull` | nodes that pull from each other | `GossipProofs` | `MCSyncPull`: `SyncPull.cfg` |
| `StoreForward` | queue, index, courier, link, destinations | `StoreForwardProofs` | `MCStoreForward`: `StoreForward.cfg` |
| `Custody` | the abstract promise that `StoreForward` implements | | |
| `OrderRegister` | the abstract register that `OrderMesh` implements | | |
| `Discovery` | gossiping agents, evictions, restarts and moves | `GossipProofs` | `MCDiscovery`: `Discovery.cfg` |
| `Quotas` | token bucket and issuance budgets under a clock that is set | `LimitsProofs` | `MCQuotas`: `Quotas.cfg` |
| `LogSync` | event logs, pulls between them, persist and restore | `LogSyncProofs` | `MCLogSync`: `LogSync.cfg` |

`HubReload` and `Settlement` are compositions: they extend the module of the component they build
on, and their steps are its steps or leave it alone. `ReloadRefinesStore` proves that for
`HubReload`, so that `PolicyStore` is its abstract specification and hands its theorems on. `Custody`
and `OrderRegister` are abstract specifications that stand alone: what a courier, and what a mesh of
hubs, promises to somebody who sees neither frames nor gates. The runs `store` and `order` check the
refinements, `CourierKeepsPromise` and `MeshIsRegister` prove them.

Two of the eight proof modules are about two components each, whose proofs do not depend on each
other: `LimitsProofs` on `KillSwitch` and `Quotas`, `GossipProofs` on `SyncPull` and `Discovery`. For
that reason the operators of `Quotas` and `Discovery` have names of their own (`QuotaInit`,
`QuotaNext`, `QuotaSpec`; `GossipInit`, `GossipNext`, `GossipSpec`).

Each `MC` module gives the model its frames, chains, ranks, links or bundles as definitions; the
`.cfg` gives model values and bounds. Definitions marked "mutant of X" are plausible bugs of the
code behind `X`; no specification uses them. With the body of `X` replaced by such a definition
TLC finds the property it is listed with violated, so each property depends on the code.

### How state and actions correspond to the code

**PolicyStore.** `live` is the policy behind the lock, `call[a]` what thread `a` holds between its
two critical sections: the snapshot it compared with and the candidate it numbered. `FloorGate` is
`load()` with the floor-gate and the numbering, `Swap` the write lock, `Reject` the early return. A
policy is its revision, its allow-list and its enabled binds; parsing is not modelled.

**HubReload.** `file` is the text of the policy file and its modification time, in ticks of the file
system's clock, or `Gone`; `seen` is `last_mtime`. The loop that `hot_reload.rs:6-7` describes is one
task, `task` says where it stands: `PollChanged`/`PollUnchanged` = `changed()`, `Load`/`LoadFails` =
`HubPolicy::load` in its outcomes, `ReloadGate`/`ReloadReject`/`ReloadSwap` = `apply_revision`, then
`Reconcile` and one `PerformOpen` or `PerformClose` per socket, which may not fail. `OtherGate` and
`OtherSwap` are another thread's `apply_revision`. `GiveUp` is no step of the code: it lets the loop
go on when the bound on revisions is used up, and ends the premise of `EditTakesEffect`.

**KillSwitch.** `Accept` = `verify` and the insertion into the ledger; `Confirm`/`Refuse` = the
archiver's answer; `Halt` = the assignment of the state; `Crash` and `Boot` may come between any
two of them. `durable` (the archiver) is all that survives. `replay_id` is what the code hashes:
anchor, nonce *and* reason. Three history variables are read by properties only: how often each order
was accepted (`handled`), the order that halted the hub (`halted_by`), and the orders whose snapshot
failed (`failed`).

**VerifyChain.** `at` is the loop's position; `prev_subject` and `parent_scope` are the `Option`s it
carries (a set of at most one element). `CheckRoot`, `CheckLink`, `CheckTail` are the checks in the
order of the code, with an early `Reject`. A signature is a Boolean of the link.

**FrameGate.** `Recv` is the first half of `recv` (decode, `ReplayLedger::observe` under its lock);
`Deliver`/`Refuse` is the verification that follows. Between them other connections run. A frame is
its nonce, kind, expiry, root, what it can be revoked by, whether the rest of its chain holds, and
two signature bits; `Frames` is what peers send, any number of times. `roster[c]` and
`revocations[c]` are copies made by `Connect`. `Bounded` is the halving of a full nonce set: which
half stays is arbitrary (HashSet order). `ledger` belongs to the node and is lost in `Restart`, and so
are the revocations. The clock is read in the step that verifies, as nothing is awaited between the
reading and the gate's check (`wss_transport.rs:612-615`). History variables are read by properties only: what was delivered
(`got`, `taken`) and what of it repeatedly (`twice`, `again`), the nonces that a halving dropped
(`forgot`), and what was withdrawn since a connection was made (`revoked_since`, `dropped_since`).

**OrderMesh.** One order. `is_owner` is the highest HRW rank among the hubs that are up. `Emit` is
the owner's `emit`, whose own fold goes through the same `admit_and_fold`; `Receive` is a frame
reaching a hub. `applied` is the DOD set, `spent` the nonce set of the receiver's gate; both grow
before the Law is asked. `nonce` keeps the byte arithmetic of `intake.rs:192` to the bits that
matter for one order. `fifo` says whether the carrier keeps the order of frames (one connection)
or not (several paths); it is chosen once, in `Init`, among `Carriers`. `OrderRegister` sees one
writer, the first owner, and copies: `Write` is an `Emit` of the owner, `Follow` a `Receive` that the
Law lets through, `Lose` the crash of the owner, `Fork` what its successors do. `held` is mapped to
`HeldByOwner`, what the frames of the owner say.

**Settlement.** `chain[h]` is what hub `h` has finalized, each record a `Finalization` of the status
it has folded in `OrderMesh` at the time. `window` is what the merging hub has collected, in its
order of arrival, possibly with repetitions, gaps and one damaged record; `reconcile(window)` is
evaluated at every state, as the code may call it at any time. A hash is the tuple it is taken over.

**SyncPull.** `request` holds the watermark as it was read, `response` the frames that are on their
way; `ingest` may be repeated. With `Whole` a response reaches `ingest` as one; without it frame by
frame, in any order (the peer iterates over a HashMap), and `Lose` may cut the rest.

**StoreForward.** Queue and index entries carry the place at which they were appended instead of
living in sequences. The courier around the queue (`Send`, `Acknowledge`, `Drop`) does what the
module's tests do: replay the snapshot oldest first, acknowledge what a destination took.
`Custody` is the abstract specification: a bundle is held until delivered, expired or asked for,
and a destination takes it once between its restarts. The refinement maps `held` to the bundles in
the queue; `KeepsPromise` is `Custody!Spec` under that mapping.

**Discovery.** `dir[a]` is the directory of agent `a` as a function from peers to addresses,
`revoked[a]` its revocation set, `targets[a]` what is left of the clone that `tick` iterates over,
and `call[a]` the exchange under way: `Dial` takes the directory as it is when the target's turn
comes, `Serve` and `Reply` are the two locks of `handle_conn`, `Learn` is the merge of the answer.
`Break` is any of the `Err` branches, `Refused` a dial to an address nobody listens at.
`GossipAgent.revocations`, which no method ever fills, is left out, and so is the signature of an
endpoint, which the code does not have (`SignedEndpoint` is a peer and an address).

**Quotas.** `seen[t]` is the clock as task `t` has read it (`Arrive`) before it calls
`try_acquire(t)`; `bucket` is the pair behind the lock. `budget[c]` is the value a caller holds in copy
`c`; `sign_delegation_budgeted` takes one and puts the charged one in its place, `Rearm` is the
explicit rollover with `charge_issuance`. `grants` and `minted` are histories.

**LogSync.** A log is the sequence of its payloads, since without collisions the rolling hash stands
for the prefix. `Plan` is `digest` on both sides and `diff`, `Ship` the peer's `replay`, `Apply` is
`apply_pull`; the two ends may change between any two of them. `PersistStart` is `File::create`, which
truncates, `PersistSpill` a spill of the `BufWriter` at any record or within one, `PersistEnd` the
flush. `Crash` keeps the file; `Restore` reads it, `StartEmpty` is what a hub does when a record is
cut or no file was ever completed (the code returns an error and leaves it to its caller).

## 3. What the runs show

| run | distinct states | result |
|---|---|---|
| `reload` | 113 914 | While an operator edits, empties and removes the policy file and another thread revises the store: the boot allow-list is a ceiling (`WithinBoot`); a revision that was not overtaken narrows the policy it replaces and takes the next number (`InTurn`); a listener is open only for a bind that a policy which went live had enabled (`OpenedByLiveOnly`); once revisions cease the listeners become and stay those of the live policy (`ListenersFollow`); a good edit that nothing undoes ends up in force (`EditTakesEffect`). |
| `policy_widening` | violated | `NeverWidens` fails: two threads are gated against `{money}`; the first installs `{}`, the second then installs `{money}`. |
| `kill` | 861 | Over a failing archiver, crashes between any two steps and two boots: a halted hub has its snapshot stored (`HaltedIsBacked`); the order that halted it was signed by an enrolled anchor over that reason, is spent, and is not one whose snapshot failed (`HaltIsAuthorized`); no order is accepted twice (`OrderAcceptedOnce`). |
| `verify_chain` | 71 946 | All chains of up to three links that are sound or wrong in one way: acceptance implies authority from an anchor for every grant asked (`AcceptedIsAuthorized`, by a definition of authority that is independent of the walk), narrowing against *every* link (`NarrowOnly`), and every well-formed chain is accepted (`AcceptsWellFormed`). |
| `frame` | 695 170 | Two connections behind the ledger and a QUIC one: no nonce comes out twice from the ledger (`NodeAcceptsOnce`) or from one gate (`GateAcceptsOnce`) unless it was dropped, only delivered nonces are in a gate's set (`OnlyDeliveredRecorded`), and what was revoked or dropped before a connection was made does not come through it (`WithdrawnStaysOut`), although connections that are open keep the copies they were given. |
| `order` | 53 289 | `OwnerDecides` under reordering, duplication and a crash; the refinement of `OrderRegister` (`IsRegister`): only the owner brings a status into the world, the others copy what it held, and after its crash nobody leaves the Law; `InStep` and `FollowsOwner` where the carrier keeps the order of frames. |
| `settle` | 1 467 457 | Two hubs, the owner of which may go down and be succeeded, finalize whatever they hold; a window of three records in any order. While the owner is up no intact window is quarantined (`NoFalseQuarantine`); an accepted window is intact and has one terminal status at most (`SplitIsQuarantined`); an accepted outcome is kept or refused when more records come in, never replaced (`VerdictNeverFlips`). |
| `sync` | 22 704 | `NothingSkipped` and `Converges` with a relay and a node that gets the same events by two ways, while requests are stale and responses late, repeated or lost. |
| `store` | 80 284 | `RightDoor`, `ReplayedUntilAcked`, `KeepsPromise` (refinement) and `Settled` (liveness), with drops, restarts, expiry, pulls and double enqueueing. |
| `discovery` | 468 096 | Of what a directory was told is revoked nothing comes back, not from an exchange under way nor from a peer that still spreads it (`RevokedStaysOut`); an agent that has moved is not talked out of its own address (`KnowsItself`); directories that nothing disturbs become identical and complete (`RootsConverge`). |
| `quotas` | 1 011 312 | What the bucket gives out is covered by its capacity, the time between its first and last grant and the time it was set back (`RateBounded`); an anchor mints in no epoch more than its budget times the copies of it (`MintsCapped`), also when the clock returns to a spent epoch. |
| `logsync` | 448 479 | All logs are beginnings of one history (`OneHistory`); a completed persist is what the next start finds (`SavedSurvives`), a cut one leaves a beginning of what the node had (`RestoresOwnPast`); logs that lost their tails are filled again (`LogsConverge`). |

`CHECK_DEADLOCK FALSE` stands where the system may really stop: a chain that was judged, a crashed
hub at its last boot, no more frames to send, the bounds used up.

Most type invariants are proved and not run (section 4). Those of `Discovery` and `Quotas` are both,
as they say more than types: in `Discovery` that an entry without an address is never dialed, in
`Quotas` that the bucket never holds more than its capacity.

### Bounds, and why they are enough

- `reload`: the reload loop and one other thread, two categories, two binds, five texts (one that
  changes the listeners, one that narrows, one that widens, the empty file, a malformed one),
  revisions up to 2, file times up to 2: two edits within one tick and in different ticks.
- `policy_widening`: two threads; every race of check-then-act is between two.
- `kill`: one enrolled key and one that is not, two nonces, two reasons, two boots: a fresh order, a
  repeated one, one that differs in the reason only, and a boot that forgets.
- `verify_chain`: three links, since every check concerns a link and its predecessor, and a third
  one shows whether what the first granted is still remembered; two grants, four keys.
- `frame`: three connections, two ledgered (the race) and one not; two nonces with five frames, so
  that a nonce is shared by an intent, a red-line intent and an alarm; a gate of capacity 1, so it is
  halved; a ledger of capacity 2, so it is not (its halving is covered by the theorem
  `LedgerAcceptsOnce`); a clock of two instants, so that a capability expires; one key and one anchor
  that are withdrawn before, between and after connections in one slot.
- `order`: three hubs, five frames (the longest path through the Law to a terminal status), one
  crash.
- `settle`: two hubs, three frames (a cancelled order is settled after one, a rejected one after
  one, a delivered one takes more: what matters is two outcomes, and a status before them), two
  records per hub, a window of three (a pair that clashes and one record before, between or after
  it), one crash.
- `sync`: two events of one actor, three nodes, one loss. Actors do not interact: the watermark has
  an entry for each. Two events are what a gap needs.
- `store`: two bundles, three enqueueings, one drop, one restart, one pull, one step of the clock.
- `discovery`: three peers, of which two know only the third (so that entries travel over a relay),
  one spare address, one revocable peer, one operator, and one restart or broken exchange; exchanges
  of all three agents overlap.
- `quotas`: two tasks, a bucket of 2 tokens, four grants (more than the bucket holds), three
  instants, one setting of the clock, epochs of two ticks, a budget of two in two copies.
- `logsync`: two events, three nodes over four links (a relay, two ways to the leaf, and one back to
  the writer), two persists and two faults (a crash in a persist, and one after a completed one).

### Fairness

- `VerifyChain`: weak fairness of the walk; it is a loop in one function.
- `HubReload.ReloadSpec`: the loop runs (`hot_reload.rs:6`: "the async runtime calls it on an
  interval"). Nothing is assumed of the operator, the clock, the other thread or a read that fails.
- `OrderMesh.FairSpec`: every frame reaches every hub that stays up. That is the premise of the
  module's own claim of convergence (`intake.rs:326-328`); the code leaves resending to the carrier.
- `SyncPull.FairSpec`: linked nodes keep pulling, and a response that is not lost arrives. No loop
  in the code does this; callers drive `make_pull_request` and `pull`, as the tests of `sync_pull.rs`
  do. `Converges` says what they get if they keep at it.
- `StoreForward.FairSpec`: the courier keeps reconnecting and replaying and hears of deliveries, as
  the doc (`bpv7.rs:169-171`: "replayed on every reconnect") and the tests have it.
- `Discovery.GossipSpec`: ticks are periodic and their exchanges, unless they break, come to an end, as a
  listener serves each in a task of its own (`discovery.rs:312-327`). Fairness is per agent, over all
  steps of its tick; the order in which it dials its targets is free.
- `LogSync.Spec`: nodes keep sweeping their links, as the tests do in rounds
  (`mesh_sync_integration.rs:480-493`); a persist is a function that returns; a node that stopped is
  started again. Faults are bounded, which stands for "finally there are no more".

## 4. What is proved

TLC looks at the instances above; the theorems hold for all values of the constants under the named
assumptions of the modules.

| theorem | says | argument |
|---|---|---|
| `StoreWithinBoot`, `StoreInTurn` | `WithinBoot`, `InTurn` of `PolicyStore` alone | `CeilingInv`: each pending candidate is narrower than the *snapshot* it was gated against and one number above it, and snapshots are within the boot list. Candidates are not bounded by the live policy, which is why `NeverWidens` fails. |
| `ReloadRefinesStore`, and with it `ReloadWithinBoot`, `ReloadInTurn` | every behaviour of the reloading hub is one of `PolicyStore`; hence its properties | one step per action: the reload task's and the other threads' two critical sections are the store's, the rest stutters. What must be known is that the text about to be applied is one a policy can have (`Applies`). |
| `ListenersWereLive`, `ReloadTyped` | `OpenedByLiveOnly`, types | `HubInv`: in addition the live policy and all that the reconciler has yet to open are within what was ever enabled (`Performing`). |
| `HaltIsBackedAndAuthorized`, `KillOrderAcceptedOnce` | `HaltedIsBacked`, `HaltIsAuthorized`, `OrderAcceptedOnce` | `KillInv`: of the call in progress, its order was signed by an anchor, is in the ledger, has not failed and is not the one that halted the hub before, and its receipt is durable (`CallInv`); what halted or failed is spent (`UsedIsSpent`); the count of acceptances is the ledger. Without the comparison of the two orders, a snapshot that fails could be that of the order of the halt. |
| `ChainAuthorizes`, `ChainNarrows` | `AcceptedIsAuthorized`, `NarrowOnly`, for chains of any length | `WalkInv` is a loop invariant: the last link passed was granted all it grants by every link before, and any set of keys closed under the live delegations holds its subject. |
| `ChainDecides` | what is accepted is well formed, what is rejected is not, for chains of any length | `DecideInv`: in addition every link before `at` meets the conditions on links (`Examined`), so that the check at `at` is the first that can fail, and the verdict agrees with them (`Decided`). |
| `LedgerAcceptsOnce` | `NodeAcceptsOnce`, any number of connections, any capacity, through any halvings | `Exclusive`: nonces delivered or under verification are in the ledger or were dropped from it, and two verifications in progress share a nonce, or one of them has a delivered one, only if it was dropped. |
| `GateVerifiesThenRecords`, `WithdrawalReachesNewConnections` | `OnlyDeliveredRecorded`, `WithdrawnStaysOut` | `GateInv`: a closed connection verifies nothing and has delivered nothing (`ClosedIsIdle`); what a connection delivered its own copies vouch for (`Vetted`); and the copies of an open one are behind the node by what was withdrawn since it was made (`CopiesLag`). |
| `GateOnce` | `GateAcceptsOnce` | `MemoryInv`: a nonce that a gate has delivered is in its set or was dropped from it (`Remembers`). |
| `SingleWriter` | `OwnerDecides`, any hubs, any crashes | `OwnerInv`: the owner's two replay sets hold nothing but its earlier frames, each of which left from an earlier status; hence it folds every frame it emits. Rests on `LawfulNonces`: two lawful transitions of an order that leave from different statuses have different nonce bytes. |
| `HubsInStep` | `InStep`, any hubs, duplicates and crashes, when the carrier keeps the order | `FollowInv`: what has reached a hub is a prefix of what was sent, its three filters hold that prefix and no more (`Reached`), the frames form a chain (`Chained`) and leave from later and later statuses (`Ascending`); hence a frame in its turn is new to every filter (`LaterIsNew`). |
| `MeshIsRegister` | the refinement `IsRegister` of `OrderRegister`, any hubs, carriers and crashes | one step per action under `OwnerInv`: a frame of the owner is a write, for the owner folds it (`LawfulNonces`); what another hub folds is an earlier frame of the owner, hence held, or comes after its crash; what a filter or the Law refuses is a stutter. |
| `CaughtUpAgrees` | a hub that every frame has reached agrees with the owner, if the carrier keeps the order | `FollowInv`. |
| `MergeIsAccepted` | `NoFalseQuarantine`, any hubs, windows of any length | `MergeInv`: `OwnerInv` carried over to the composition, and every terminal status on record is the owner's while it is up (`Agreed`), since the owner does not leave a terminal status and what a hub has settled the owner has; so no two records clash. |
| `SplitIsNeverMerged`, `VerdictIsFinal` | `SplitIsQuarantined`, `VerdictNeverFlips` | what was collected is a record as its hub made it or fails its own hash (`Collected`); a window only grows at its end, so the first record, which gives the answer, stays, and a clash once there remains. |
| `MergeIsOwners`, `MergeIgnoresOrder` | the outcome of an accepted window is the owner's while it is up; `reconcile` depends neither on the order nor on the repetition of the records | the first is `Agreed` of the first record; the second is about `reconcile` alone: acceptance says of all pairs what can be said of them in any order, and two terminal records that do not clash are equal in status. |
| `PullSkipsNothing` | `NothingSkipped`, if `Whole` and `FirstSeq # 0` | `PullInv`: no node has a gap below its watermark; each pending request carries a watermark with the same property, and each response closes every gap its own frames could open (`Gapless`). Both premises are needed, see section 5. |
| `PullIsTheDifference` | under the same premises, what a peer would answer is exactly what it has and the puller lacks | `PullInv`: without gaps below it, one number per actor stands for the set that was folded. |
| `GossipTyped`, `RevokedNeverReturns`, `AgentsKnowThemselves` | `GossipTypeOK`, `RevokedStaysOut`, `KnowsItself`, any peers, addresses, exchanges, restarts | `DirectoryInv`: the three need each other. A revoked peer is never the agent itself, as an entry of one's own is there and an eviction spares it; a merge takes in only what is lacking and allowed (`MergeKeeps`), so what travels in exchanges need not be bounded. |
| `GossipSpreadsTheTruth` | while nobody moves, directories hold true addresses only | `TruthInv`: the payloads under way are true as well (`PayloadsTrue`), and so is what a restart seeds. |
| `QuotasTyped`, `BucketKeepsRate` | `QuotaTypeOK`, `RateBounded`, any tasks, stale readings, clocks that are set | `RateInv`: a bucket that has given nothing is full (`Untouched`), without which the first grant would not be paid for. |
| `AnchorMintsCapped` | `MintsCapped`, any copies of a budget, epochs in any order | the sum of what copies have minted would need induction over the copies. Instead `MintInv` says that the delegations of an epoch can be matched with distinct units, a copy and a number up to the budget (`Backed`), each used up for good in that epoch (`Used`); there are only so many units. |
| `CourierKeepsPromise`, `CourierRoutes`, `CourierReplays` | the refinement of `Custody`; `RightDoor`; `ReplayedUntilAcked`; all under `DistinctNonces` | `CourierInv`: index and wire never mix up destinations; a destination has seen the nonce of all it holds. Each action of the courier is a step of `Custody` or a stutter. `StepKeepsOwed`: what the index owes stays in the queue, as only the acknowledgement or expiry of the same nonce removes it. |
| `EveryLogIsMaster` | `OneHistory`, any nodes, links, crashes | `HistoryInv`: every log, every file and every transfer under way is numbered as the master chain is (`Numbered`), a transfer from the number it announces on (`OnItsWay`); so what `apply_pull` lets in continues the log. It needs `~forked`: a writer that lost its tail and appends anew makes a second chain. |
| `SavedIsRestored`, `RestoredIsPast` | `SavedSurvives`, `RestoresOwnPast` | `DiskInv`: a file is always a beginning of its node's log, cut or not, and while nothing is being written it is what was last saved. That the log does not change during a persist (`&self`) is what keeps a cut file from being a mixture. |
| `PullOutcome`, `PullCatchesUp` | what `diff` and `apply_pull` make of any two logs; in a mesh without a fork, that an empty plan means nothing is lacking and an undisturbed pull ends in the other's log | the first place where two sequences differ, which exists as numbers are well founded; then `HistoryInv`, by which any two logs are comparable. |
| `ActionsReachDesired`, `FreshEditIsCarried` | the reconciler's actions come to the binds of the policy they were computed for, whatever is revised meanwhile; past the reload a good edit is still to be seen, in force, or refused | the first is about one step (`Goal`); `EditInv` says for every position of the loop what has become of the edit (`Carried`). |
| `MeshTypes`, `LogTyped` | type correctness | of the other modules it is a conjunct of a theorem above (`StoreWithinBoot`, `HaltIsBackedAndAuthorized`, `ChainNarrows`, `GateVerifiesThenRecords`, `PullSkipsNothing`, `CourierRoutes`). |

Only model-checked: the liveness properties, as the prover has neither fairness nor ENABLED. Every
other invariant, action property and refinement of a passing run has a theorem. Of each liveness
property that part is proved which needs no fairness, namely that what it arrives at, if it gets there, is
the right thing, or that nothing on the way is lost:

| liveness property (TLC) | proved of it |
|---|---|
| `AcceptsWellFormed` | `ChainDecides`: any verdict is the right one. |
| `ListenersFollow` | `ActionsReachDesired`: the actions that are performed end in the desired listeners. |
| `EditTakesEffect` | `FreshEditIsCarried`: the edge of an edit is not spent without its being carried out. |
| `FollowsOwner` | `CaughtUpAgrees`: a hub that has everything agrees with the owner. |
| `Converges` | `PullIsTheDifference`: a pull asks for all that is lacking. |
| `Settled` | `CourierKeepsPromise`: a bundle leaves the queue in one of the promised ways only. |
| `RootsConverge` | `GossipSpreadsTheTruth`: directories cannot settle on a wrong address. |
| `LogsConverge` | `PullCatchesUp`: a pull that nothing disturbs is the last one needed. |

No module with proofs uses a recursive operator.

## 5. Disagreements

Where code and documentation disagree. One has a run that ends in a counterexample
(`policy_widening`, see `findings` in `PROJECT.json`). Six more can be seen with a run of the same
modules: make the property named here the one that the `.cfg` checks, and change what is given:

- `BreachSingleUse` (`breach.rs:59`, "`nonce` is single-use") fails on a carrier without a ledger: an
  alarm returns before the gate (`iroh_transport.rs:388`) and is delivered again and again.
  `FrameGate.cfg` with `Ledgered = {}`, `Frames <- AlarmFrames`, `Armed = FALSE`.
- `RevokedIsRejected` (`revocation.rs:67-68`, "every capability minted to this key is thereafter
  rejected") fails on a connection that is open when the key is revoked: it verifies against a clone
  (`discovery.rs:351`). `FrameGate.cfg` with that property; `WithdrawnStaysOut` says how far it fails.
- `OrderMesh!Converges` (`intake.rs:326-328`, "convergence comes from the protocol Law") fails when
  frames overtake one another: the gates spend the id of a frame that came too early, so its
  repetition is a "replay" (`intake.rs:251`). `OrderMesh.cfg` with `Carriers = {FALSE}`.
- `NothingSkipped` (`sync_pull.rs:4-6`, "every event it has not yet folded") fails when a response is
  cut: the watermark is raised over a gap (`sync_pull.rs:621`), as `pull` answers in the order of a
  HashMap. `SyncPull.cfg` with `Whole = FALSE`.
- `ReplayedUntilAcked` (`bpv7.rs:169-171`) fails for two bundles of different destinations with one
  nonce: `ack` removes the first that bears it (`bpv7.rs:227`). `StoreForward.cfg` with
  `Bundles <- Shared`.
- `OkCarriesTerminal` (`finalization.rs:139-140`, "`Ok` carries the accepted terminal status") fails
  when the first record of a window is not terminal (`finalization.rs:164`). `Settlement.cfg` with
  that invariant.

Further ones were met while modelling. The models contain the behaviour; no property is spent on
them:

- Two racing revisions can get the same number (`hub_policy.rs:328`, against line 100); `InTurn`
  therefore speaks of a revision that was not overtaken.
- A policy file that is removed after the poll is loaded as the deny-all policy and applied
  (`hub_policy.rs:233`), against `hot_reload.rs:7-9` ("the last-good policy stays live").
- The edge of an edit is consumed before it has taken effect (`hot_reload.rs:50`), so a reload whose
  read fails is not tried again, and a second edit within one tick of the file's clock is not seen;
  hence the premises of `EditTakesEffect`.
- An anchor's nonce is accepted twice if the reason differs (`kill_switch.rs:112`, against 71-72).
- The requested scope is compared with the scope of the last link and never with its effect
  (`roster.rs:305`, against line 108).
- A ledger over capacity forgets half of its nonces, after which a frame is delivered again on
  another connection (`wss_transport.rs:128`, against 121-122); hence `forgot`, the nonces for which
  `NodeAcceptsOnce` makes no claim.
- Revocations are lost when the node restarts, as `boot` starts with an empty set (`boot.rs:146`,
  against `revocation.rs:12-13`, "irreversible, never a temporary suspension"); what
  `WithdrawnStaysOut` calls revoked was revoked since the node started.
- The ledger records a nonce before anything is verified, so a damaged copy of a frame makes the
  node refuse the genuine one (`wss_transport.rs:576`, against `hybrid_gate.rs:120-123`).
- After the owner of an order goes down its successor decides from its own copy and may settle the
  order differently (`hub_ring.rs:91`, against lines 15-18); hence the premise of `OwnerDecides`. It
  is what `SplitIsQuarantined` is there for.
- The DOD set holds ids of events that the node refused (`dod.rs:71`, against line 32).
- `reconcile` holds each record against the predecessor that it names itself, so a window with a
  record missing is accepted (`finalization.rs:156`, against line 146, "truncation rejected").
- An event with seq 0 is never pulled (`sync_pull.rs:586`, against line 502).
- After a double `enqueue` and one `ack` the queue holds a bundle the index does not
  (`bpv7.rs:195` and 227, against 165-168).
- A bucket whose time is set back earns the same seconds again (`transport_policy.rs:58`, against
  26-28); hence the term `grants.back` of `RateBounded`.
- A budget "does NOT auto-re-arm" and an exhausted one "cannot re-arm" (`node_id.rs:208-210`): true of
  one value, but budgets are `Copy`, and each copy is charged for itself; hence the factor of
  `MintsCapped`. An exhausted budget is refused in a new epoch as well (`node_id.rs:290`), until the
  caller rolls it over.
- `RevocationDecider` records the SHA3 id of a *PQ* key (`boot.rs:180`), and its set is meant for
  `PeerDirectory::evict_revoked` (`boot.rs:194-195`), which looks up *classical* keys
  (`discovery.rs:88`): such a revocation evicts nobody. `Discovery` has `Evict` name the classical key.
- An entry of a directory is never replaced by a merge (`discovery.rs:73`): when a peer has moved,
  the others keep its old address until they are seeded again, and dial whoever is there now.
- `persist` truncates the last good file before the new one is written (`at_rest.rs:193`): a crash in
  between leaves less than there was. `restore` builds the hash chain anew over what it finds
  (`at_rest.rs:231`), so `verify` cannot tell a file that was cut between two records.

## 6. What is not modelled, and the plan

Left out for good: cryptographic primitives, numerics and byte formats (pure functions over bytes
and reals); ports, CLI commands and terminal UI (input and
output); the CI fence (a source scanner). The agent CLI under `crates/bebop` is listed part by part
in `PROJECT.json`: but for its message bus it is sequential code over values and floating-point
numbers.

Left out within the modelled components: the transitional gate policy `ClassicalUntilPqAudit`;
connection permits, idle timeouts and frame sizes; the amounts of an order (the MONEY gate); the
custody signature of a bundle; forged sync frames, which `ingest` drops without a trace; an I/O error
of `persist` that the process survives (`at_rest.rs:193-205`), and power loss (nothing calls `fsync`);
two peers that a directory has at one address, which a tick of the code dials twice
(`discovery.rs:223-230`) and that of `Discovery` once; the
hand-over of revocation deltas (`RevocationDecider::drain_gossip` has no caller outside its test).

Next, in this order:

1. Proofs: what `Custody` and `OrderRegister` themselves promise (a bundle is not taken twice without a
   restart; a copy of the register never shows an outcome that the writer has not reached), carried
   over to `StoreForward` and `OrderMesh` by their refinements; an abstract specification of the
   receive path of `FrameGate`.
2. `Discovery` composed with `FrameGate`'s revocation sets, once the code hands revocations on.
3. Connection permits and `ConnBucket` composed with `Connect` and `Close` of `FrameGate`.
4. The message bus of the agent CLI (`crates/bebop/src/portkey.rs`): `publish` on a snapshot of its
   subscribers while others subscribe and unsubscribe.
5. Several actors per node in `SyncPull`, including one actor on two nodes.
