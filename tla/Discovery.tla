------------------------------- MODULE Discovery -------------------------------
(***************************************************************************)
(* Roster discovery by gossip (bebop2/proto-wire/src/discovery.rs), while   *)
(* operators have peers evicted from the directories of their agents.      *)
(*                                                                         *)
(* An agent's tick copies its directory, then dials the copied entries one *)
(* after the other: it sends the directory as it is then, and merges the   *)
(* answer.  The agent that listens at the address merges what it is sent   *)
(* and answers with its own directory, each under its own lock.  Between   *)
(* any two of these steps entries are inserted, merged, evicted; agents    *)
(* restart, with an empty directory, at another address; exchanges break.  *)
(*                                                                         *)
(* All agents are anchored: the gates of the carrier are in FrameGate.     *)
(* Nobody checks who answers at an address, and GossipAgent.revocations,   *)
(* which no method changes, stays empty.                                   *)
(***************************************************************************)
EXTENDS Naturals

CONSTANTS
    Peers,
    Addrs,        \* host:port
    Home,         \* the address each peer first listens at
    Seed,         \* the peer that each one is seeded with
    Revocable,    \* peers that an operator may revoke
    Operators,    \* agents whose operator revokes
    MaxFaults,    \* bound: restarts and broken exchanges, over all agents
    None

ASSUME DiscoveryAssumption ==
    /\ Home \in [Peers -> Addrs]
    /\ \A p, q \in Peers : Home[p] = Home[q] => p = q
    /\ Seed \in [Peers -> Peers]
    /\ Revocable \subseteq Peers /\ Operators \subseteq Peers
    /\ None \notin Addrs
    /\ MaxFaults \in Nat

VARIABLES
    addr,         \* GossipAgent.listen_addr
    dir,          \* PeerDirectory.peers: address or None
    revoked,      \* PeerDirectory.revoked
    targets,      \* the entries that an agent's tick has yet to dial
    call,         \* the exchange of that tick
    faults        \* restarts and broken exchanges so far

directory == <<addr, dir, revoked>>
gossip == <<targets, call>>
gossipVars == <<directory, gossip, faults>>

Directory == [Peers -> Addrs \cup {None}]
Empty == [p \in Peers |-> None]

Idle == [at |-> "idle"]

-----------------------------------------------------------------------------
(* PeerDirectory::insert                                                    *)
insert(a, d, p, ep) == IF p \in revoked[a] THEN d ELSE [d EXCEPT ![p] = ep]

\* mutant of merge: what was revoked is not looked at
merge_all(a, d, other) == [p \in Peers |-> IF d[p] = None THEN other[p] ELSE d[p]]

\* mutant of merge: the other directory's endpoints replace ours
merge_newest(a, d, other) ==
    [p \in Peers |-> IF other[p] # None /\ p \notin revoked[a] THEN other[p] ELSE d[p]]

(* PeerDirectory::merge: an entry that is there is never replaced.          *)
merge(a, d, other) ==
    [p \in Peers |-> IF d[p] = None /\ p \notin revoked[a] THEN other[p] ELSE d[p]]

(* add_self and seed_peer, on a new directory                               *)
Bootstrap(a) == [Empty EXCEPT ![a] = addr'[a], ![Seed[a]] = addr'[Seed[a]]]

GossipInit ==
    /\ addr = Home
    /\ dir = [a \in Peers |-> [Empty EXCEPT ![a] = Home[a], ![Seed[a]] = Home[Seed[a]]]]
    /\ revoked = [a \in Peers |-> {}]
    /\ targets = [a \in Peers |-> {}]
    /\ call = [a \in Peers |-> Idle]
    /\ faults = 0

-----------------------------------------------------------------------------
\* mutant of TickStart: entries without an address are dialed as well
TickStartAll(a) ==
    /\ call[a] = Idle /\ targets[a] = {}
    /\ targets' = [targets EXCEPT ![a] = {dir[a][p] : p \in Peers \ {a}}]
    /\ UNCHANGED <<directory, call, faults>>

(* GossipAgent::tick                                                        *)
TickStart(a) ==
    /\ call[a] = Idle /\ targets[a] = {}
    /\ targets' = [targets EXCEPT ![a] = {dir[a][p] : p \in Peers \ {a}} \ {None}]
    /\ UNCHANGED <<directory, call, faults>>

\* mutant of to_wire: an agent only speaks for itself
to_wire_self(a) == [Empty EXCEPT ![a] = dir[a][a]]

(* The payload carries the entries, not the revocations.                    *)
to_wire(a) == dir[a]

Dial(a, ep) ==
    /\ call[a] = Idle /\ ep \in targets[a]
    /\ targets' = [targets EXCEPT ![a] = @ \ {ep}]
    /\ call' = [call EXCEPT ![a] = [at |-> "dialing", ep |-> ep, payload |-> to_wire(a)]]
    /\ UNCHANGED <<directory, faults>>

(* Nobody listens at the address: the tick goes on with the next target.    *)
Refused(a) ==
    /\ call[a].at = "dialing"
    /\ \A b \in Peers : addr[b] # call[a].ep
    /\ call' = [call EXCEPT ![a] = Idle]
    /\ UNCHANGED <<directory, targets, faults>>

(* handle_conn, first lock: the listener merges what it was sent.           *)
Serve(a, b) ==
    /\ call[a].at = "dialing" /\ addr[b] = call[a].ep
    /\ dir' = [dir EXCEPT ![b] = merge(b, @, call[a].payload)]
    /\ call' = [call EXCEPT ![a] = [at |-> "served", by |-> b]]
    /\ UNCHANGED <<addr, revoked, targets, faults>>

(* handle_conn, second lock: the answer.                                    *)
Reply(a) ==
    /\ call[a].at = "served"
    /\ call' = [call EXCEPT ![a] = [at |-> "replied", by |-> @.by, payload |-> to_wire(@.by)]]
    /\ UNCHANGED <<directory, targets, faults>>

Learn(a) ==
    /\ call[a].at = "replied"
    /\ dir' = [dir EXCEPT ![a] = merge(a, @, call[a].payload)]
    /\ call' = [call EXCEPT ![a] = Idle]
    /\ UNCHANGED <<addr, revoked, targets, faults>>

(* connect, send or recv fails: the tick goes on.                           *)
Break(a) ==
    /\ call[a] # Idle /\ faults < MaxFaults
    /\ faults' = faults + 1
    /\ call' = [call EXCEPT ![a] = Idle]
    /\ UNCHANGED <<directory, targets>>

-----------------------------------------------------------------------------
(* seed_peer, at the address that the operator knows to be right             *)
Reseed(a, p) ==
    /\ dir' = [dir EXCEPT ![a] = insert(a, @, p, addr[p])]
    /\ UNCHANGED <<addr, revoked, gossip, faults>>

(* PeerDirectory::evict_revoked: it is told keys, and looks entries up by    *)
(* their peer id, the classical key.                                        *)
evict_revoked(a, ids) ==
    /\ revoked' = [revoked EXCEPT ![a] = @ \cup ids]
    /\ dir' = [dir EXCEPT ![a] =
                  [p \in Peers |-> IF p \in revoked[a] \cup ids THEN None ELSE @[p]]]

(* The operator revokes a peer's classical key in the agent's directory.    *)
Evict(a, p) ==
    /\ a \in Operators /\ p \in Revocable /\ p # a
    /\ evict_revoked(a, {p})
    /\ UNCHANGED <<addr, gossip, faults>>

(* The process of a stops and starts again, perhaps at another address: what *)
(* it held in memory, its revocations too, is gone.                         *)
Restart(a, ep) ==
    /\ faults < MaxFaults
    /\ faults' = faults + 1
    /\ \A b \in Peers \ {a} : addr[b] # ep
    /\ addr' = [addr EXCEPT ![a] = ep]
    /\ dir' = [dir EXCEPT ![a] = Bootstrap(a)]
    /\ revoked' = [revoked EXCEPT ![a] = {}]
    /\ targets' = [targets EXCEPT ![a] = {}]
    /\ call' = [b \in Peers |->
                   IF b = a \/ (call[b].at \in {"served", "replied"} /\ call[b].by = a)
                   THEN Idle ELSE call[b]]

Gossip(a) ==
    \/ TickStart(a)
    \/ \E ep \in Addrs : Dial(a, ep)
    \/ Refused(a)
    \/ \E b \in Peers : Serve(a, b)
    \/ Reply(a)
    \/ Learn(a)

GossipNext ==
    \E a \in Peers :
        \/ Gossip(a)
        \/ Break(a)
        \/ \E p \in Peers : Reseed(a, p) \/ Evict(a, p)
        \/ \E ep \in Addrs : Restart(a, ep)

(* Ticks are periodic, and a listener serves every connection in a task of   *)
(* its own.                                                                 *)
Fairness == \A a \in Peers : WF_gossipVars(Gossip(a))

GossipSpec == GossipInit /\ [][GossipNext]_gossipVars /\ Fairness

-----------------------------------------------------------------------------
Call ==
    {Idle} \cup [at : {"dialing"}, ep : Addrs, payload : Directory]
           \cup [at : {"served"}, by : Peers]
           \cup [at : {"replied"}, by : Peers, payload : Directory]

GossipTypeOK ==
    /\ addr \in [Peers -> Addrs]
    /\ dir \in [Peers -> Directory]
    /\ revoked \in [Peers -> SUBSET Peers]
    /\ targets \in [Peers -> SUBSET Addrs]
    /\ call \in [Peers -> Call]
    /\ faults \in 0 .. MaxFaults

(* discovery.rs:81, "and remember the revocation": what a directory has been  *)
(* told is revoked never comes back to it, not from an exchange that was     *)
(* under way, nor from a peer that still spreads the entry.                  *)
RevokedStaysOut == \A a, p \in Peers : p \in revoked[a] => dir[a][p] = None

(* discovery.rs:182: an agent advertises the address it listens at, whatever *)
(* the others still say of it after it has moved.                            *)
KnowsItself == \A a \in Peers : dir[a][a] = addr[a]

(* mesh_sync_integration.rs:683-694: while nobody moves and no directory is  *)
(* told of a revocation, all directories become identical and complete.     *)
Undisturbed == addr = Home /\ \A a \in Peers : revoked[a] = {}
RootsConverge == []Undisturbed => <>[](\A a \in Peers : dir[a] = addr)
=============================================================================
