------------------------------- MODULE HubReload -------------------------------
(***************************************************************************)
(* Hot reload of the hub policy: the mtime watcher of                      *)
(* bebop2/mesh-node/src/hot_reload.rs, HubPolicy::load, the policy store   *)
(* (PolicyStore, which this module extends) and the listener reconciler of *)
(* listener_reconcile.rs, while an operator edits the policy file and      *)
(* another thread may revise the same store.                               *)
(*                                                                         *)
(* The library leaves the loop that calls these parts to the runtime       *)
(* (hot_reload.rs:6-7, listener_reconcile.rs:9-10).  It is one task:       *)
(* poll, on an edit read the file and apply it, then reconcile the         *)
(* listeners, one socket at a time.  Everything else may run between any   *)
(* two of its steps.                                                       *)
(*                                                                         *)
(* A file is its modification time and its text; the clock is that of the  *)
(* file system, so several edits can bear the same time.  Truncating the   *)
(* file is an edit: the empty text parses to the deny-all policy.          *)
(***************************************************************************)
EXTENDS PolicyStore, Integers

CONSTANTS
    Reloader,    \* the applier that runs the reload loop
    Texts,       \* what a well-formed policy file can say
    MaxClock     \* bound: the last tick of the file system's clock

ASSUME ClockAssumption == MaxClock \in Nat
ASSUME ReloaderAssumption == Reloader \in Appliers
ASSUME TextsAssumption == Texts \subseteq [allow : SUBSET Categories, binds : SUBSET Binds]

VARIABLES
    clock,
    file,        \* the policy file
    seen,        \* PolicyWatcher.last_mtime
    task,        \* where the reload loop stands
    open,        \* binds of the listeners that are open
    everEnabled, \* history: every bind that a live policy has enabled
    fresh        \* history: the last edit had a later time than the one last seen,
                 \* its read did not fail, and no other thread revised the store since

hub == <<clock, file, seen, task, open, everEnabled, fresh>>
allVars == <<vars, hub>>

Malformed == [malformed |-> TRUE]
Gone == [gone |-> TRUE]
BootText == [allow |-> BootAllow, binds |-> BootBinds]
Written == [text : Texts \cup {Malformed, BootText}, mtime : 0..MaxClock]
Never == -1                         \* last_mtime is None
DenyAll == [allow |-> {}, binds |-> {}]

Others == Appliers \ {Reloader}

At(step) == [at |-> step]

ReloadInit ==
    /\ Init
    /\ clock = 0
    /\ \/ file = [text |-> BootText, mtime |-> 0] /\ seen = 0
       \/ file = Gone /\ seen = Never
    /\ task = At("poll")
    /\ open = {}
    /\ everEnabled = BootBinds
    /\ fresh = FALSE

-----------------------------------------------------------------------------
(* The operator's editor and the clock.                                     *)
Edit(text) ==
    /\ file' = [text |-> text, mtime |-> clock]
    /\ fresh' = (clock > seen)
    /\ UNCHANGED <<vars, clock, seen, task, open, everEnabled>>

Remove ==
    /\ file # Gone
    /\ file' = Gone
    /\ fresh' = FALSE
    /\ UNCHANGED <<vars, clock, seen, task, open, everEnabled>>

Tick ==
    /\ clock < MaxClock
    /\ clock' = clock + 1
    /\ UNCHANGED <<vars, file, seen, task, open, everEnabled, fresh>>

-----------------------------------------------------------------------------
\* mutant of Changed: a file that appears where there was none is no change
ChangedKnown == file # Gone /\ seen # Never /\ file.mtime > seen

(* PolicyWatcher::changed                                                   *)
Changed == file # Gone /\ file.mtime > seen

(* The edge is consumed here, before the reload is known to succeed.        *)
PollChanged ==
    /\ task = At("poll")
    /\ Changed
    /\ seen' = file.mtime
    /\ task' = At("load")
    /\ UNCHANGED <<vars, clock, file, open, everEnabled, fresh>>

PollUnchanged ==
    /\ task = At("poll")
    /\ ~Changed
    /\ task' = At("reconcile")
    /\ UNCHANGED <<vars, clock, file, seen, open, everEnabled, fresh>>

(* HubPolicy::load: a file that is not there is the deny-all policy, any     *)
(* other read error and a malformed text keep the last-good policy.         *)
Load ==
    /\ task = At("load")
    /\ \/ /\ file # Gone /\ file.text # Malformed
          /\ task' = [at |-> "apply", text |-> file.text]
       \/ /\ file = Gone
          /\ task' = [at |-> "apply", text |-> DenyAll]
       \/ /\ file # Gone /\ file.text = Malformed
          /\ task' = At("reconcile")
    /\ UNCHANGED <<vars, clock, file, seen, open, everEnabled, fresh>>

LoadFails ==
    /\ task = At("load") /\ file # Gone
    /\ task' = At("reconcile")
    /\ fresh' = (fresh /\ file.mtime > seen)
    /\ UNCHANGED <<vars, clock, file, seen, open, everEnabled>>

(* apply_revision by the reload task, the two critical sections of          *)
(* PolicyStore.  GiveUp is the bound on revisions, not a step of the code.   *)
ReloadGate ==
    /\ task.at = "apply"
    /\ FloorGate(Reloader, task.text.allow, task.text.binds)
    /\ task' = At("swap")
    /\ UNCHANGED <<clock, file, seen, open, everEnabled, fresh>>

ReloadReject ==
    /\ task.at = "apply"
    /\ Reject(Reloader, task.text.allow)
    /\ task' = At("reconcile")
    /\ UNCHANGED <<clock, file, seen, open, everEnabled, fresh>>

GiveUp ==
    /\ task.at = "apply"
    /\ live.revision = MaxRevision /\ ~Widens(task.text.allow, live)
    /\ task' = At("reconcile")
    /\ fresh' = FALSE
    /\ UNCHANGED <<vars, clock, file, seen, open, everEnabled>>

ReloadSwap ==
    /\ task = At("swap")
    /\ Swap(Reloader)
    /\ task' = At("reconcile")
    /\ everEnabled' = everEnabled \cup live'.binds
    /\ UNCHANGED <<clock, file, seen, open, fresh>>

(* A revision that another thread applies to the same store.                *)
OtherGate(a, text) ==
    /\ a \in Others
    /\ FloorGate(a, text.allow, text.binds)
    /\ UNCHANGED hub

OtherSwap(a) ==
    /\ a \in Others
    /\ Swap(a)
    /\ everEnabled' = everEnabled \cup live'.binds
    /\ fresh' = FALSE
    /\ UNCHANGED <<clock, file, seen, task, open>>

-----------------------------------------------------------------------------
\* mutant of Desired: the listeners of the file are opened, applied or not
DesiredOfFile ==
    IF file = Gone \/ file.text = Malformed THEN live.binds ELSE file.text.binds

(* enabled_listener_binds of the live policy                                *)
Desired == live.binds

\* mutant of reconcile: listeners that are no longer enabled are left open
reconcile_opens_only(actual, desired) == [open |-> desired \ actual, close |-> {}]

(* reconcile: the difference of two sets, first what to open, then what to close. *)
reconcile(actual, desired) == [open |-> desired \ actual, close |-> actual \ desired]

Reconcile ==
    /\ task = At("reconcile")
    /\ task' = [at |-> "perform", actions |-> reconcile(open, Desired)]
    /\ UNCHANGED <<vars, clock, file, seen, open, everEnabled, fresh>>

PerformOpen(bind) ==
    /\ task.at = "perform" /\ bind \in task.actions.open
    /\ open' = open \cup {bind}
    /\ task' = [task EXCEPT !.actions.open = @ \ {bind}]
    /\ UNCHANGED <<vars, clock, file, seen, everEnabled, fresh>>

PerformClose(bind) ==
    /\ task.at = "perform" /\ task.actions.open = {} /\ bind \in task.actions.close
    /\ open' = open \ {bind}
    /\ task' = [task EXCEPT !.actions.close = @ \ {bind}]
    /\ UNCHANGED <<vars, clock, file, seen, everEnabled, fresh>>

Performed ==
    /\ task.at = "perform"
    /\ task.actions.open = {} /\ task.actions.close = {}
    /\ task' = At("poll")
    /\ UNCHANGED <<vars, clock, file, seen, open, everEnabled, fresh>>

ReloadTask ==
    \/ PollChanged \/ PollUnchanged \/ Load \/ LoadFails
    \/ ReloadGate \/ ReloadReject \/ GiveUp \/ ReloadSwap
    \/ Reconcile
    \/ \E bind \in Binds : PerformOpen(bind) \/ PerformClose(bind)
    \/ Performed

Surroundings ==
    \/ \E text \in Texts \cup {Malformed} : Edit(text)
    \/ Remove
    \/ Tick
    \/ \E a \in Others : OtherSwap(a) \/ \E text \in Texts : OtherGate(a, text)

ReloadNext == ReloadTask \/ Surroundings

(* The runtime runs the loop on an interval (hot_reload.rs:6).               *)
ReloadSpec == ReloadInit /\ [][ReloadNext]_allVars /\ WF_allVars(ReloadTask)

-----------------------------------------------------------------------------
Steps == {"poll", "load", "swap", "reconcile"}

HubTypes ==
    /\ clock \in 0..MaxClock
    /\ file \in Written \cup {Gone}
    /\ seen \in {Never} \cup 0..MaxClock
    /\ task \in {At(step) : step \in Steps} \cup [at : {"apply"}, text : Texts \cup {DenyAll, BootText}]
                  \cup [at : {"perform"}, actions : [open : SUBSET Binds, close : SUBSET Binds]]
    /\ open \subseteq Binds
    /\ everEnabled \subseteq Binds
    /\ fresh \in BOOLEAN

ReloadTypeOK == TypeOK /\ HubTypes

(* listener_reconcile.rs:3-4, deny by default: a listener is only ever opened  *)
(* for a bind that some policy which went live had enabled.  A candidate that *)
(* was refused opens nothing, whichever thread revises the store meanwhile.  *)
OpenedByLiveOnly == open \subseteq everEnabled

(* hub_policy.rs §5.1 / listener_reconcile.rs:7: once nobody revises the     *)
(* policy any more, the open listeners become and stay those of the live     *)
(* policy, without a restart.                                                *)
ListenersFollow == <>[](open = live.binds)

(* hot_reload.rs:5-7 and 38-40, as far as the code keeps it: an edit that is  *)
(* later than the one last seen ends up in force, unless its text is refused, *)
(* its read fails (the edge is spent: it is not tried again), the file is     *)
(* edited or removed again, or another thread revises the store.             *)
InForce(text) == live.allow = text.allow /\ live.binds = text.binds

Settled ==
    file # Gone => \/ file.text = Malformed
                   \/ InForce(file.text)
                   \/ Widens(file.text.allow, live)

EditTakesEffect == <>[]fresh => <>[]Settled
=============================================================================
