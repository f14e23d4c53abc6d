------------------------------- MODULE Settlement -------------------------------
(***************************************************************************)
(* How an order of OrderMesh is settled for good: every hub finalizes the  *)
(* status it has reached in a hash chain of its own, and once a partition  *)
(* has healed a hub merges the records it has collected                    *)
(* (bebop2/delivery-domain/src/finalization.rs).                           *)
(*                                                                         *)
(* The records travel as the merging hub happens to collect them: in any   *)
(* order, more than once, or damaged, and some never.  A merge window is   *)
(* of one order, as detect_conflict asks.  SHA3-256 is injective: a hash   *)
(* is the tuple of what it is taken over.                                  *)
(***************************************************************************)
EXTENDS OrderMesh

CONSTANTS
    MaxRecords,   \* bound: finalizations of one hub
    MaxWindow     \* bound: records in a merge window

VARIABLES
    chain,        \* per hub: its finalizations of the order, in sequence
    window        \* the records the merging hub has collected, in order of arrival

settleVars == <<vars, chain, window>>

Zeros == <<>>
Corrupt == <<"corrupt">>

link(status_, hub, seq, prev) == <<status_, hub, seq, prev>>

(* Finalization::new                                                        *)
Finalization(status_, hub, seq, prev) ==
    [status |-> status_, hub |-> hub, quorum_seq |-> seq, prev_hash |-> prev,
     hash |-> link(status_, hub, seq, prev)]

\* mutant of verify_chain: the hash is not computed again
verify_chain_prev(f, expected_prev) == f.prev_hash = expected_prev

verify_chain(f, expected_prev) ==
    /\ link(f.status, f.hub, f.quorum_seq, f.prev_hash) = f.hash
    /\ f.prev_hash = expected_prev

\* mutant of is_terminal: one discriminant too many
is_terminal_wide(s) == s \in {"InDelivery", "Delivered", "Rejected", "Cancelled", "PickedUp"}

is_terminal(s) == s \in {"Delivered", "Rejected", "Cancelled", "PickedUp"}

Clash(a, b) == a.status # b.status /\ is_terminal(a.status) /\ is_terminal(b.status)

\* mutant of detect_conflict: every record is compared with the first only
detect_conflict_first(records) == \E j \in DOMAIN records : Clash(records[1], records[j])

detect_conflict(records) == \E i, j \in DOMAIN records : Clash(records[i], records[j])

Refused == [ok |-> FALSE]

\* mutant of reconcile: the last record gives the answer
reconcile_last(records) ==
    IF \/ records = <<>>
       \/ \E i \in DOMAIN records : ~verify_chain(records[i], records[i].prev_hash)
       \/ detect_conflict(records)
    THEN Refused
    ELSE [ok |-> TRUE, status |-> records[Len(records)].status]

(* PartitionMerge::reconcile.  Each record is held against the predecessor  *)
(* that it names itself, and the first record gives the answer.             *)
reconcile(records) ==
    IF \/ records = <<>>
       \/ \E i \in DOMAIN records : ~verify_chain(records[i], records[i].prev_hash)
       \/ detect_conflict(records)
    THEN Refused
    ELSE [ok |-> TRUE, status |-> records[1].status]

-----------------------------------------------------------------------------
SettleInit ==
    /\ Init
    /\ chain = [h \in Hubs |-> <<>>]
    /\ window = <<>>

(* A hub records the status that it has folded, chained to its last record. *)
Finalize(h) ==
    LET n == Len(chain[h]) IN
    /\ h \in up /\ n < MaxRecords
    /\ chain' = [chain EXCEPT ![h] =
           Append(@, Finalization(status[h], h, n + 1,
                                  IF n = 0 THEN Zeros ELSE chain[h][n].hash))]
    /\ UNCHANGED <<vars, window>>

Collect(h, i) ==
    /\ i \in DOMAIN chain[h] /\ Len(window) < MaxWindow
    /\ window' = Append(window, chain[h][i])
    /\ UNCHANGED <<vars, chain>>

(* At most one record of a window is damaged: a bound.                      *)
CollectDamaged(h, i) ==
    /\ i \in DOMAIN chain[h] /\ Len(window) < MaxWindow
    /\ \A j \in DOMAIN window : window[j].prev_hash # Corrupt
    /\ window' = Append(window, [chain[h][i] EXCEPT !.prev_hash = Corrupt])
    /\ UNCHANGED <<vars, chain>>

SettleNext ==
    \/ Next /\ UNCHANGED <<chain, window>>
    \/ \E h \in Hubs : Finalize(h)
    \/ \E h \in Hubs : \E i \in 1 .. MaxRecords : Collect(h, i) \/ CollectDamaged(h, i)

SettleSpec == SettleInit /\ [][SettleNext]_settleVars

-----------------------------------------------------------------------------
Sent(h) == {chain[h][i] : i \in DOMAIN chain[h]}
Intact(records) == \A i \in DOMAIN records : records[i] \in UNION {Sent(h) : h \in Hubs}
Settles(verdict) == verdict.ok /\ Terminal(verdict.status)

(* finalization.rs:3-6 with hub_ring.rs:3-4: as long as the owner of the    *)
(* order has not gone down, a merge of intact records is never quarantined, *)
(* whichever hubs finalized, however early, and however the records came in. *)
NoFalseQuarantine ==
    (first_owner \in up /\ window # <<>> /\ Intact(window)) => reconcile(window).ok

(* finalization.rs:11-13: hubs that settled the same order differently are    *)
(* never merged, and a damaged record is never merged, wherever they stand   *)
(* in the window.                                                           *)
SplitIsQuarantined ==
    reconcile(window).ok =>
        /\ Intact(window)
        /\ \A i, j \in DOMAIN window :
              Terminal(window[i].status) /\ Terminal(window[j].status)
                  => window[i].status = window[j].status

(* finalization.rs:142, never a silent winner: once a merge has accepted    *)
(* an outcome, no record that arrives later makes it accept another one, or  *)
(* go back to an order that is not settled.                                  *)
VerdictNeverFlips ==
    [][Settles(reconcile(window)) =>
           ~reconcile(window').ok \/ reconcile(window') = reconcile(window)]_settleVars

(* finalization.rs:139-140, "Ok carries the accepted terminal status         *)
(* (consensus: all agree)".  Not so when the first record is not terminal    *)
(* (README, "Disagreements").                                                *)
OkCarriesTerminal == reconcile(window).ok => Terminal(reconcile(window).status)
=============================================================================
