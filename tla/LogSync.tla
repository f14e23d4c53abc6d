-------------------------------- MODULE LogSync --------------------------------
(***************************************************************************)
(* The hash-chained event log of bebop2/core (event_log.rs), pulled from    *)
(* node to node by anti_entropy.rs and kept on disk by at_rest.rs.         *)
(*                                                                         *)
(* A log is the sequence of its payloads: without collisions the rolling    *)
(* hash of an entry stands for the entries up to it.  One node, the writer, *)
(* appends (mesh_sync_integration.rs:490-493: a mesh must share one master  *)
(* chain); the others pull from it and from each other.  A pull is a plan,  *)
(* a transfer and an application, and either end may change in between.     *)
(*                                                                         *)
(* Persisting writes the whole log over the old file, through a buffer      *)
(* that spills when it is full.  A crash stops it anywhere.  Which node     *)
(* pulls from which, and when it persists, is up to the hub around these    *)
(* functions, as is what it does when the file cannot be restored.          *)
(***************************************************************************)
EXTENDS Integers, Sequences

CONSTANTS
    Nodes,
    Writer,       \* the node that appends
    Keepers,      \* the nodes that keep their log on disk
    Links,        \* <<r, s>>: r pulls from s
    MaxEvents,    \* bound: events the writer appends
    MaxPersists,  \* bound: how often a log is persisted
    MaxFaults     \* bound: crashes and lost transfers

ASSUME LogAssumption ==
    /\ Writer \in Nodes /\ Keepers \subseteq Nodes
    /\ Links \subseteq Nodes \X Nodes
    /\ MaxEvents \in Nat /\ MaxPersists \in Nat /\ MaxFaults \in Nat

VARIABLES
    up,
    log,          \* EventLog.entries; what it was, while the node is down
    file,         \* the file: its whole records, and whether one more is cut
    writing,      \* AtRestStore::persist is under way
    saved,        \* history: what the last persist wrote, if it came to its end
    pull,         \* the pull over each link
    authored,     \* how many events the writer has appended
    forked,       \* history: the writer has appended while its log lacked
                  \* events it had appended before
    persists, faults

logs == <<up, log>>
disk == <<file, writing, saved, persists>>
author == <<authored, forked>>
vars == <<logs, disk, pull, author, faults>>

Empty == <<>>
Unsaved == [recs |-> Empty, torn |-> TRUE]
Idle == [at |-> "idle"]

Init ==
    /\ up = [n \in Nodes |-> TRUE]
    /\ log = [n \in Nodes |-> Empty]
    /\ file = [n \in Nodes |-> Unsaved]
    /\ writing = [n \in Nodes |-> FALSE]
    /\ saved = [n \in Nodes |-> Unsaved]
    /\ pull = [l \in Links |-> Idle]
    /\ authored = 0 /\ forked = FALSE
    /\ persists = 0 /\ faults = 0

(* persist borrows the store: meanwhile the log does not change.            *)
Free(n) == up[n] /\ ~writing[n]

-----------------------------------------------------------------------------
(* EventLog::append, by the writer                                          *)
append ==
    /\ Free(Writer) /\ authored < MaxEvents
    /\ authored' = authored + 1
    /\ forked' = (forked \/ Len(log[Writer]) < authored)
    /\ log' = [log EXCEPT ![Writer] = Append(@, authored')]
    /\ UNCHANGED <<up, disk, pull, faults>>

\* mutant of diff: what is missing starts after the first missing entry
diff_late(local, remote) ==
    IF Len(remote) > Len(local) THEN {Len(local) + 1} ELSE {}

(* diff of two digests: the seq (from 0) from which to pull, if from any.    *)
diff(local, remote) ==
    LET differing == {i \in DOMAIN local \cap DOMAIN remote : local[i] # remote[i]}
        firsts == {i \in differing : \A j \in differing : i <= j}
    IN  IF differing # {} THEN {i - 1 : i \in firsts}
        ELSE IF Len(remote) > Len(local) THEN {Len(local)}
        ELSE {}

Plan(l) ==
    /\ pull[l] = Idle /\ up[l[1]] /\ up[l[2]]
    /\ \E from \in diff(log[l[1]], log[l[2]]) :
           pull' = [pull EXCEPT ![l] = [at |-> "planned", from |-> from]]
    /\ UNCHANGED <<logs, disk, author, faults>>

(* EventLog::replay, at the sender as it is now                             *)
replay(entries, from) == SubSeq(entries, from + 1, Len(entries))

Ship(l) ==
    /\ pull[l].at = "planned" /\ up[l[2]]
    /\ pull' = [pull EXCEPT ![l] =
                   [at |-> "shipped", from |-> @.from, missing |-> replay(log[l[2]], @.from)]]
    /\ UNCHANGED <<logs, disk, author, faults>>

\* mutant of apply_pull: the numbers are not compared with the log
apply_pull_any(entries, from, missing) == entries \o missing

(* apply_pull.  The numbers of a transfer are consecutive, so the first one  *)
(* decides.  The verify() at the end recomputes what append has computed.    *)
apply_pull(entries, from, missing) ==
    IF from = Len(entries) THEN entries \o missing ELSE entries

Apply(l) ==
    /\ pull[l].at = "shipped" /\ Free(l[1])
    /\ log' = [log EXCEPT ![l[1]] = apply_pull(@, pull[l].from, pull[l].missing)]
    /\ pull' = [pull EXCEPT ![l] = Idle]
    /\ UNCHANGED <<up, disk, author, faults>>

Lose(l) ==
    /\ pull[l] # Idle /\ faults < MaxFaults
    /\ faults' = faults + 1
    /\ pull' = [pull EXCEPT ![l] = Idle]
    /\ UNCHANGED <<logs, disk, author>>

-----------------------------------------------------------------------------
\* mutant of Truncated: the new records go over the old ones in place
TruncatedInPlace(n) == file[n]

(* File::create: the file that was there is gone.                           *)
Truncated(n) == [recs |-> Empty, torn |-> FALSE]

(* AtRestStore::persist                                                     *)
PersistStart(n) ==
    /\ n \in Keepers /\ Free(n) /\ persists < MaxPersists
    /\ persists' = persists + 1
    /\ writing' = [writing EXCEPT ![n] = TRUE]
    /\ file' = [file EXCEPT ![n] = Truncated(n)]
    /\ saved' = [saved EXCEPT ![n] = Unsaved]
    /\ UNCHANGED <<logs, pull, author, faults>>

(* What stands in the file once the first k records of the log are in it.   *)
Overwritten(n, k) ==
    SubSeq(log[n], 1, k) \o SubSeq(file[n].recs, k + 1, Len(file[n].recs))

(* The buffer spills: some records are in the file, and perhaps half a one.  *)
(* (Half a length field counts as none, for restore takes it for the end.)   *)
PersistSpill(n, k, torn) ==
    /\ up[n] /\ writing[n]
    /\ k < Len(log[n])
    /\ file' = [file EXCEPT ![n] = [recs |-> Overwritten(n, k), torn |-> torn]]
    /\ file' # file
    /\ Len(file[n].recs) <= k
    /\ UNCHANGED <<logs, writing, saved, persists, pull, author, faults>>

\* mutant of PersistEnd: what is in the buffer is not flushed
PersistEndUnflushed(n) ==
    /\ up[n] /\ writing[n]
    /\ saved' = [saved EXCEPT ![n] = [recs |-> log[n], torn |-> FALSE]]
    /\ writing' = [writing EXCEPT ![n] = FALSE]
    /\ UNCHANGED <<logs, file, persists, pull, author, faults>>

PersistEnd(n) ==
    /\ up[n] /\ writing[n]
    /\ file' = [file EXCEPT ![n] = [recs |-> Overwritten(n, Len(log[n])), torn |-> FALSE]]
    /\ saved' = [saved EXCEPT ![n] = [recs |-> log[n], torn |-> FALSE]]
    /\ writing' = [writing EXCEPT ![n] = FALSE]
    /\ UNCHANGED <<logs, persists, pull, author, faults>>

Crash(n) ==
    /\ up[n] /\ faults < MaxFaults
    /\ faults' = faults + 1
    /\ up' = [up EXCEPT ![n] = FALSE]
    /\ writing' = [writing EXCEPT ![n] = FALSE]
    /\ pull' = [l \in Links |-> IF l[1] = n THEN Idle ELSE pull[l]]
    /\ UNCHANGED <<log, file, saved, persists, author>>

(* AtRestStore::restore, which rebuilds the chain over what it reads.        *)
Restore(n) ==
    /\ ~up[n] /\ ~file[n].torn
    /\ up' = [up EXCEPT ![n] = TRUE]
    /\ log' = [log EXCEPT ![n] = file[n].recs]
    /\ UNCHANGED <<disk, pull, author, faults>>

(* There is no file, or restore fails on a record that is cut: the hub       *)
(* starts over with an empty log.                                           *)
StartEmpty(n) ==
    /\ ~up[n] /\ file[n].torn
    /\ up' = [up EXCEPT ![n] = TRUE]
    /\ log' = [log EXCEPT ![n] = Empty]
    /\ UNCHANGED <<disk, pull, author, faults>>

Pull(l) == Plan(l) \/ Ship(l) \/ Apply(l)
Start(n) == Restore(n) \/ StartEmpty(n)

Next ==
    \/ append
    \/ \E l \in Links : Pull(l) \/ Lose(l)
    \/ \E n \in Nodes :
          \/ PersistStart(n)
          \/ \E k \in 0 .. MaxEvents, torn \in BOOLEAN : PersistSpill(n, k, torn)
          \/ PersistEnd(n)
          \/ Crash(n)
          \/ Start(n)

(* Nodes keep sweeping over their links, a persist comes to its end, and a   *)
(* node that stopped is started again.                                      *)
Fairness ==
    /\ \A l \in Links : WF_vars(Pull(l))
    /\ \A n \in Nodes : WF_vars(PersistEnd(n)) /\ WF_vars(Start(n))

Spec == Init /\ [][Next]_vars /\ Fairness

-----------------------------------------------------------------------------
Entries == Seq(Nat)
FileType == [recs : Entries, torn : BOOLEAN]
Pulls ==
    {Idle} \cup [at : {"planned"}, from : Nat] \cup [at : {"shipped"}, from : Nat, missing : Entries]

TypeOK ==
    /\ up \in [Nodes -> BOOLEAN] /\ log \in [Nodes -> Entries]
    /\ file \in [Nodes -> FileType] /\ saved \in [Nodes -> FileType]
    /\ writing \in [Nodes -> BOOLEAN]
    /\ pull \in [Links -> Pulls]
    /\ authored \in Nat /\ forked \in BOOLEAN

OnMaster(entries) == \A i \in DOMAIN entries : entries[i] = i

(* mesh_sync_integration.rs:490-493: as long as the writer appends only to a  *)
(* log that has all it wrote before, every node holds a part of the master   *)
(* chain from its beginning, with nothing twice and nothing left out,       *)
(* whatever it pulled by stale plans and from nodes that lost their tails.   *)
OneHistory == ~forked => \A n \in Nodes : OnMaster(log[n])

(* What a persist that came to its end has written is what the next start    *)
(* finds, unless another persist was begun and cut.                         *)
SavedSurvives ==
    [][\A n \in Nodes : Start(n) /\ ~saved[n].torn => log'[n] = saved[n].recs]_vars

(* A node starts with a log that it had, up to a point, when it stopped:     *)
(* never with a mixture of what it wrote at two times.                      *)
IsPrefixOf(s, t) == Len(s) <= Len(t) /\ \A i \in DOMAIN s : s[i] = t[i]

RestoresOwnPast == [][\A n \in Nodes : Start(n) => IsPrefixOf(log'[n], log[n])]_vars

(* anti_entropy.rs:65-67, "must pull from the remote to converge": if the     *)
(* writer never forks the chain, the logs end up the same, those of nodes    *)
(* that lost theirs and of nodes that only a relay links to the writer too.  *)
LogsConverge ==
    []~forked => <>[](\A m, n \in Nodes : up[n] /\ log[m] = log[n])
=============================================================================
