------------------------------- MODULE SyncPull -------------------------------
(***************************************************************************)
(* Anti-entropy by pull, bebop2/proto-wire/src/sync_pull.rs: a node sends  *)
(* its watermark (per actor, the highest seq it folded), the peer answers  *)
(* with the frames past it, and the node folds those it does not have.     *)
(*                                                                         *)
(* An event is an actor and a seq; its content-id stands for both, as each *)
(* actor writes on one node only and numbers its events one by one, which  *)
(* is what the callers in the tests do.  Forged frames, which ingest       *)
(* rejects without a trace, are left out; so is the Merkle digest, which   *)
(* is a function of the folded set.                                        *)
(***************************************************************************)
EXTENDS Naturals

CONSTANTS
    Nodes, Actors,
    Links,        \* pairs <<n, m>>: n pulls from m
    Author,       \* per actor: the node its events are committed on
    FirstSeq,     \* seq of an actor's first event
    Whole,        \* a response reaches ingest whole, and not frame by frame
    MaxEvents,    \* bound: how many events an actor commits
    MaxLost       \* bound: how many responses the link loses

ASSUME AuthorAssumption == Author \in [Actors -> Nodes]
ASSUME LinksAssumption == Links \subseteq Nodes \X Nodes
ASSUME FirstSeqAssumption == FirstSeq \in Nat
ASSUME WholeAssumption == Whole \in BOOLEAN

VARIABLES
    committed,    \* per actor: how many events it has committed
    frames,       \* per node: the frames it has folded
    max_seq,      \* per node: its watermark; an actor without an entry is at 0
    request,      \* per node and peer: {} or {watermark of the pending request}
    response,     \* per node: the responses on their way to it
    lost          \* how many were lost

vars == <<committed, frames, max_seq, request, response, lost>>

Event == [actor : Actors, seq : Nat]

Events == {[actor |-> a, seq |-> FirstSeq + k] : a \in Actors, k \in 0 .. MaxEvents - 1}

Committed(e) ==
    e \in Event /\ FirstSeq <= e.seq /\ e.seq < FirstSeq + committed[e.actor]

Init ==
    /\ committed = [a \in Actors |-> 0]
    /\ frames = [n \in Nodes |-> {}]
    /\ max_seq = [n \in Nodes |-> [a \in Actors |-> 0]]
    /\ request = [n \in Nodes |-> [m \in Nodes |-> {}]]
    /\ response = [n \in Nodes |-> {}]
    /\ lost = 0

(* The watermark after the frames of S were folded, in any order.           *)
Raised(watermark, S) ==
    [a \in Actors |->
        IF \E e \in S : e.actor = a /\ e.seq > watermark[a]
        THEN (CHOOSE e \in S : e.actor = a /\ \A f \in S : f.actor = a => f.seq <= e.seq).seq
        ELSE watermark[a]]

Fold(n, S) ==
    /\ frames' = [frames EXCEPT ![n] = @ \cup S]
    /\ max_seq' = [max_seq EXCEPT ![n] = Raised(@, S)]

local_commit(a) ==
    LET e == [actor |-> a, seq |-> FirstSeq + committed[a]] IN
    /\ committed[a] < MaxEvents
    /\ committed' = [committed EXCEPT ![a] = @ + 1]
    /\ Fold(Author[a], {e})
    /\ UNCHANGED <<request, response, lost>>

(* The watermark is read here; frames may be folded before it is answered.  *)
make_pull_request(n, m) ==
    /\ <<n, m>> \in Links /\ request[n][m] = {}
    /\ request' = [request EXCEPT ![n][m] = {max_seq[n]}]
    /\ UNCHANGED <<committed, frames, max_seq, response, lost>>

\* mutant of Past: the peer leaves the next event out
PastNext(m, watermark) == {e \in frames[m] : e.seq > watermark[e.actor] + 1}

Past(m, watermark) == {e \in frames[m] : e.seq > watermark[e.actor]}

pull(m, n) ==
    \E watermark \in request[n][m] :
        /\ request' = [request EXCEPT ![n][m] = {}]
        /\ response' = [response EXCEPT ![n] = @ \cup ({Past(m, watermark)} \ {{}})]
        /\ UNCHANGED <<committed, frames, max_seq, lost>>

(* The frames of S reach ingest; the rest of the response is still coming.  *)
(* A response may also come again.                                          *)
ingest(n, batch, S) ==
    /\ batch \in response[n] /\ S \subseteq batch /\ S # {}
    /\ Whole => S = batch
    /\ Fold(n, S \ frames[n])
    /\ \/ response' = [response EXCEPT ![n] = (@ \ {batch}) \cup ({batch \ S} \ {{}})]
       \/ UNCHANGED response
    /\ UNCHANGED <<committed, request, lost>>

(* The link breaks: what had not arrived of a response never does.          *)
Lose(n, batch) ==
    /\ batch \in response[n] /\ lost < MaxLost
    /\ response' = [response EXCEPT ![n] = @ \ {batch}]
    /\ lost' = lost + 1
    /\ UNCHANGED <<committed, frames, max_seq, request>>

Next ==
    \/ \E a \in Actors : local_commit(a)
    \/ \E n, m \in Nodes : make_pull_request(n, m) \/ pull(m, n)
    \/ \E n \in Nodes : \E batch \in response[n] :
           (\E S \in SUBSET batch : ingest(n, batch, S)) \/ Lose(n, batch)

Spec == Init /\ [][Next]_vars

(* Nodes keep pulling from one another; a response that is not lost arrives. *)
FairSpec ==
    /\ Spec
    /\ \A n, m \in Nodes :
           <<n, m>> \in Links => WF_vars(make_pull_request(n, m)) /\ WF_vars(pull(m, n))
    /\ \A n \in Nodes : WF_vars(\E batch \in response[n] : ingest(n, batch, batch))

-----------------------------------------------------------------------------
TypeOK ==
    /\ committed \in [Actors -> Nat]
    /\ frames \in [Nodes -> SUBSET Event]
    /\ max_seq \in [Nodes -> [Actors -> Nat]]
    /\ request \in [Nodes -> [Nodes -> SUBSET [Actors -> Nat]]]
    /\ response \in [Nodes -> SUBSET (SUBSET Event)]
    /\ lost \in Nat

(* sync_pull.rs:3-6, 502-503: a node's request asks for every event it has  *)
(* not folded: no event that it lacks is behind its watermark, where no     *)
(* pull would ever bring it back.                                           *)
NothingSkipped ==
    \A n \in Nodes, e \in Events :
        Committed(e) /\ e \notin frames[n] => e.seq > max_seq[n][e.actor]

(* sync_pull.rs:21-23: pulling ends in convergence: once an event is        *)
(* committed anywhere, every node comes to fold it.                         *)
Converges == \A n \in Nodes, e \in Events : Committed(e) ~> e \in frames[n]
=============================================================================
