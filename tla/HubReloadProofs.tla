---------------------------- MODULE HubReloadProofs ----------------------------
(***************************************************************************)
(* What holds of the policy store, and of the hub that reloads it, for any  *)
(* number of threads, categories, listeners and policy files.              *)
(*                                                                         *)
(* Of the store: WithinBoot alone is not inductive: a gated candidate       *)
(* outlives the policy it was compared with, so the invariant must also    *)
(* bound every candidate still on its way to the write lock.               *)
(*                                                                         *)
(* Of the hub: every step of the reload loop, of the operator and of other  *)
(* threads is a step of the store or none, so the hub inherits the store's  *)
(* properties.  OpenedByLiveOnly needs to know in addition that what the    *)
(* reconciler still has to open comes from a policy that was live.         *)
(*                                                                         *)
(* ActionsReachDesired and FreshEditIsCarried are what remains of the two   *)
(* liveness properties when fairness is taken away: the loop is always on   *)
(* its way to the listeners of the policy it read, and loses no edit that it *)
(* could read.                                                              *)
(***************************************************************************)
EXTENDS HubReload, TLAPS

(* A gated candidate is under the ceiling, and follows the policy that it   *)
(* was compared with.                                                       *)
Gauged(job) ==
    /\ job.candidate.allow \subseteq BootAllow
    /\ job.candidate.allow \subseteq job.current.allow
    /\ job.candidate.revision = job.current.revision + 1

CeilingInv ==
    /\ TypeOK
    /\ WithinBoot
    /\ \A a \in Appliers : call[a] # Idle => Gauged(call[a])

LEMMA IdleIsNotGated == Idle \notin Gated
  BY DEF Idle, Gated

LEMMA CandidateIsPolicy ==
  ASSUME TypeOK, NEW a \in Appliers, call[a] # Idle
  PROVE  call[a] \in Gated /\ call[a].candidate \in Policy
  BY DEF TypeOK, Gated

LEMMA InitCeiling == Init => CeilingInv
  BY BootAssumption DEF Init, CeilingInv, TypeOK, WithinBoot, Policy

(* Gating compares the candidate with a live policy that is itself under    *)
(* the ceiling.                                                             *)
LEMMA FloorGateKeepsCeiling ==
  ASSUME CeilingInv, NEW a \in Appliers,
         NEW allow \in SUBSET Categories, NEW binds \in SUBSET Binds,
         FloorGate(a, allow, binds)
  PROVE  CeilingInv'
<1> DEFINE cand == [revision |-> live.revision + 1, allow |-> allow, binds |-> binds]
           job  == [at |-> "gated", current |-> live, candidate |-> cand]
<1>1. cand \in Policy
  BY DEF CeilingInv, TypeOK, Policy
<1>2. job \in Gated
  BY <1>1 DEF Gated, CeilingInv, TypeOK
<1>3. Gauged(job)
  BY DEF FloorGate, Widens, CeilingInv, WithinBoot, Gauged
<1>4. live' = live /\ call' = [call EXCEPT ![a] = job]
  BY DEF FloorGate
<1>5. TypeOK'
  BY <1>2, <1>4 DEF CeilingInv, TypeOK
<1>6. ASSUME NEW b \in Appliers, call'[b] # Idle
      PROVE  Gauged(call'[b])
  <2>1. CASE b = a
    BY <2>1, <1>3, <1>4 DEF CeilingInv, TypeOK
  <2>2. CASE b # a
    BY <2>2, <1>4, <1>6 DEF CeilingInv, TypeOK
  <2> QED BY <2>1, <2>2
<1> QED BY <1>4, <1>5, <1>6 DEF CeilingInv, WithinBoot

LEMMA SwapKeepsCeiling ==
  ASSUME CeilingInv, NEW a \in Appliers, Swap(a)
  PROVE  CeilingInv'
<1>1. call[a] # Idle /\ live' = call[a].candidate /\ call' = [call EXCEPT ![a] = Idle]
  BY DEF Swap
<1>2. call[a].candidate \in Policy /\ call[a].candidate.allow \subseteq BootAllow
  BY <1>1, CandidateIsPolicy DEF CeilingInv, Gauged
<1>3. TypeOK'
  BY <1>1, <1>2 DEF CeilingInv, TypeOK
<1>4. \A b \in Appliers : call'[b] # Idle => Gauged(call'[b])
  BY <1>1 DEF CeilingInv, TypeOK
<1> QED BY <1>1, <1>2, <1>3, <1>4 DEF CeilingInv, WithinBoot

LEMMA NextCeiling == CeilingInv /\ [Next]_vars => CeilingInv'
<1> SUFFICES ASSUME CeilingInv, [Next]_vars PROVE CeilingInv'
  OBVIOUS
<1>1. CASE UNCHANGED vars
  BY <1>1 DEF vars, CeilingInv, TypeOK, WithinBoot
<1>2. CASE Next
  <2> PICK a \in Appliers :
        \/ \E allow \in SUBSET Categories, binds \in SUBSET Binds : FloorGate(a, allow, binds)
        \/ \E allow \in SUBSET Categories : Reject(a, allow)
        \/ Swap(a)
    BY <1>2 DEF Next
  <2>1. CASE \E allow \in SUBSET Categories, binds \in SUBSET Binds : FloorGate(a, allow, binds)
    BY <2>1, FloorGateKeepsCeiling
  <2>2. CASE \E allow \in SUBSET Categories : Reject(a, allow)
    BY <2>2, <1>1 DEF Reject
  <2>3. CASE Swap(a)
    BY <2>3, SwapKeepsCeiling
  <2> QED BY <2>1, <2>2, <2>3
<1> QED BY <1>1, <1>2

(* Every reachable store is well-typed and its red-line allow-list stays    *)
(* under the boot policy's, whatever threads race in apply_revision.        *)
THEOREM StoreWithinBoot == Spec => [](TypeOK /\ WithinBoot)
<1>1. CeilingInv => TypeOK /\ WithinBoot
  BY DEF CeilingInv
<1> QED BY InitCeiling, NextCeiling, <1>1, PTL DEF Spec

(* A revision that replaces the policy it was compared with is the next one *)
(* and no wider, whatever other threads have on their way.                  *)
THEOREM StoreInTurn == Spec => InTurn
<1>1. CeilingInv => [\A a \in Appliers :
                         Swap(a) /\ call[a].current = live =>
                             live'.revision = live.revision + 1 /\ live'.allow \subseteq live.allow]_vars
  <2> SUFFICES ASSUME CeilingInv, NEW a \in Appliers, Swap(a), call[a].current = live
               PROVE  live'.revision = live.revision + 1 /\ live'.allow \subseteq live.allow
    OBVIOUS
  <2>1. call[a] # Idle /\ live' = call[a].candidate
    BY DEF Swap
  <2> QED BY <2>1 DEF CeilingInv, Gauged
<1> QED BY <1>1, InitCeiling, NextCeiling, PTL DEF Spec, InTurn

-----------------------------------------------------------------------------
(* The hub                                                                  *)

AnyText == [allow : SUBSET Categories, binds : SUBSET Binds]

LEMMA TextTypes == Texts \subseteq AnyText /\ BootText \in AnyText /\ DenyAll \in AnyText
  BY TextsAssumption, BootAssumption DEF AnyText, BootText, DenyAll

(* Only what the reload loop is about to apply matters for the store: its   *)
(* text must be one that a policy can have.                                 *)
Applies == task.at = "apply" => task.text \in AnyText

LEMMA ReloadStepIsStoreStep ==
  ASSUME Applies, [ReloadNext]_allVars
  PROVE  [Next]_vars
<1>1. CASE UNCHANGED allVars
  BY <1>1 DEF allVars
<1>2. CASE ReloadTask
  <2>1. CASE ReloadGate
    <3>1. task.text.allow \in SUBSET Categories /\ task.text.binds \in SUBSET Binds
      BY <2>1 DEF ReloadGate, Applies, AnyText
    <3> QED BY <2>1, <3>1, ReloaderAssumption DEF ReloadGate, Next
  <2>2. CASE ReloadSwap
    BY <2>2, ReloaderAssumption DEF ReloadSwap, Next
  <2>3. CASE ReloadReject
    BY <2>3 DEF ReloadReject, Reject
  <2>4. CASE UNCHANGED vars
    BY <2>4
  <2> QED
    BY <1>2, <2>1, <2>2, <2>3, <2>4
    DEF ReloadTask, PollChanged, PollUnchanged, Load, LoadFails, GiveUp, Reconcile,
        PerformOpen, PerformClose, Performed
<1>3. CASE Surroundings
  <2>1. CASE \E a \in Others : OtherSwap(a)
    BY <2>1 DEF Others, OtherSwap, Next
  <2>2. CASE \E a \in Others : \E text \in Texts : OtherGate(a, text)
    <3>1. PICK a \in Others, text \in Texts : OtherGate(a, text)
      BY <2>2
    <3>2. text.allow \in SUBSET Categories /\ text.binds \in SUBSET Binds
      BY TextTypes DEF AnyText
    <3> QED BY <3>1, <3>2 DEF OtherGate, Others, Next
  <2>3. CASE UNCHANGED vars
    BY <2>3
  <2> QED BY <1>3, <2>1, <2>2, <2>3 DEF Surroundings, Edit, Remove, Tick
<1> QED BY <1>1, <1>2, <1>3 DEF ReloadNext

(* Where the reconciler stands while it performs its actions.               *)
Performing ==
    [at : {"perform"}, actions : [open : SUBSET everEnabled, close : SUBSET everEnabled]]

(* What the hub knows of its listeners and of the step it is at.            *)
HubInv ==
    /\ file # Gone => file.text \in {Malformed} \cup AnyText
    /\ Applies
    /\ OpenedByLiveOnly
    /\ live.binds \subseteq everEnabled
    /\ task.at = "perform" => task \in Performing

LEMMA ReloadInitHub == ReloadInit => HubInv
  BY TextTypes
  DEF ReloadInit, Init, HubInv, Applies, OpenedByLiveOnly, At, BootText, Gone

LEMMA ReloadTaskKeepsHub ==
  ASSUME HubInv, ReloadTask
  PROVE  HubInv'
<1> USE DEF HubInv, Applies, OpenedByLiveOnly, At
<1>1. CASE PollChanged
  BY <1>1 DEF PollChanged, vars
<1>2. CASE PollUnchanged
  BY <1>2 DEF PollUnchanged, vars
<1>3. CASE Load
  <2>1. UNCHANGED <<live, file, open, everEnabled>>
    BY <1>3 DEF Load, vars
  <2>2. Applies'
    BY <1>3, TextTypes DEF Load
  <2>3. task'.at # "perform"
    BY <1>3 DEF Load
  <2> QED BY <2>1, <2>2, <2>3
<1>4. CASE LoadFails
  BY <1>4 DEF LoadFails, vars
<1>5. CASE ReloadGate
  BY <1>5 DEF ReloadGate, FloorGate
<1>6. CASE ReloadReject
  BY <1>6 DEF ReloadReject, Reject, vars
<1>7. CASE GiveUp
  BY <1>7 DEF GiveUp, vars
<1>8. CASE ReloadSwap
  BY <1>8 DEF ReloadSwap
<1>9. CASE Reconcile
  <2>1. UNCHANGED <<live, file, open, everEnabled>>
    BY <1>9 DEF Reconcile, vars
  <2>2. task' = [at |-> "perform", actions |-> [open |-> live.binds \ open, close |-> open \ live.binds]]
    BY <1>9 DEF Reconcile, reconcile, Desired
  <2>3. task' \in Performing'
    BY <2>1, <2>2 DEF Performing
  <2> QED BY <2>1, <2>2, <2>3
<1>10. CASE \E bind \in Binds : PerformOpen(bind)
  <2>1. PICK bind \in Binds : PerformOpen(bind)
    BY <1>10
  <2>2. task.at = "perform" /\ bind \in task.actions.open /\ open' = open \cup {bind}
    BY <2>1 DEF PerformOpen
  <2>3. UNCHANGED <<live, file, everEnabled>>
    BY <2>1 DEF PerformOpen, vars
  <2>4. task \in Performing
    BY <2>2
  <2>5. task'.at = "perform" /\ task' \in Performing'
    BY <2>1, <2>3, <2>4 DEF PerformOpen, Performing
  <2>6. bind \in everEnabled
    BY <2>2, <2>4 DEF Performing
  <2> QED BY <2>2, <2>3, <2>5, <2>6
<1>11. CASE \E bind \in Binds : PerformClose(bind)
  <2>1. PICK bind \in Binds : PerformClose(bind)
    BY <1>11
  <2>2. task.at = "perform" /\ open' \subseteq open
    BY <2>1 DEF PerformClose
  <2>3. UNCHANGED <<live, file, everEnabled>>
    BY <2>1 DEF PerformClose, vars
  <2>4. task \in Performing
    BY <2>2
  <2>5. task'.at = "perform" /\ task' \in Performing'
    BY <2>1, <2>3, <2>4 DEF PerformClose, Performing
  <2> QED BY <2>2, <2>3, <2>5
<1>12. CASE Performed
  BY <1>12 DEF Performed, vars
<1> QED
  BY ReloadTask, <1>1, <1>2, <1>3, <1>4, <1>5, <1>6, <1>7, <1>8, <1>9, <1>10, <1>11, <1>12
  DEF ReloadTask

LEMMA SurroundingsKeepHub ==
  ASSUME HubInv, Surroundings
  PROVE  HubInv'
<1> USE DEF HubInv, Applies, OpenedByLiveOnly
<1>1. CASE \E text \in Texts \cup {Malformed} : Edit(text)
  <2>1. PICK text \in Texts \cup {Malformed} : Edit(text)
    BY <1>1
  <2>2. file'.text = text /\ UNCHANGED <<live, task, open, everEnabled>>
    BY <2>1 DEF Edit, vars
  <2> QED BY <2>2, TextTypes DEF Performing
<1>2. CASE Remove
  BY <1>2 DEF Remove, vars, Performing
<1>3. CASE Tick
  BY <1>3 DEF Tick, vars, Performing
<1>4. CASE \E a \in Others : OtherSwap(a)
  BY <1>4 DEF OtherSwap, Performing
<1>5. CASE \E a \in Others : \E text \in Texts : OtherGate(a, text)
  BY <1>5 DEF OtherGate, FloorGate, hub, Performing
<1> QED BY <1>1, <1>2, <1>3, <1>4, <1>5 DEF Surroundings

LEMMA ReloadNextHub == HubInv /\ [ReloadNext]_allVars => HubInv'
<1> SUFFICES ASSUME HubInv, [ReloadNext]_allVars PROVE HubInv'
  OBVIOUS
<1>1. CASE UNCHANGED allVars
  BY <1>1 DEF allVars, hub, vars, HubInv, Applies, OpenedByLiveOnly, Performing
<1> QED BY <1>1, ReloadTaskKeepsHub, SurroundingsKeepHub DEF ReloadNext

LEMMA HubAlways == ReloadSpec => []HubInv
  BY ReloadInitHub, ReloadNextHub, PTL DEF ReloadSpec

(* The hub that reloads its policy file is a user of the policy store like   *)
(* any other: every behaviour of the reload loop is one of the store.       *)
THEOREM ReloadRefinesStore == ReloadSpec => Spec
<1>1. ReloadInit => Init
  BY DEF ReloadInit
<1>2. HubInv /\ [ReloadNext]_allVars => [Next]_vars
  BY ReloadStepIsStoreStep DEF HubInv
<1> QED BY <1>1, <1>2, HubAlways, PTL DEF ReloadSpec, Spec

(* Whatever the operator writes into the policy file, and whoever else       *)
(* revises the store meanwhile, the boot allow-list stays a ceiling.        *)
THEOREM ReloadWithinBoot == ReloadSpec => []WithinBoot
  BY ReloadRefinesStore, StoreWithinBoot, PTL

(* A reload that nobody overtook narrows the live policy and takes the next  *)
(* number.                                                                  *)
THEOREM ReloadInTurn == ReloadSpec => InTurn
  BY ReloadRefinesStore, StoreInTurn, PTL

(* No listener is ever opened for a bind that no live policy has enabled,    *)
(* whatever is edited or revised between the reading of the live policy and  *)
(* the opening of the last socket.                                          *)
THEOREM ListenersWereLive == ReloadSpec => []OpenedByLiveOnly
<1>1. HubInv => OpenedByLiveOnly
  BY DEF HubInv
<1> QED BY <1>1, HubAlways, PTL

-----------------------------------------------------------------------------
(* Types of the hub                                                         *)

LEMMA StepTypes ==
  /\ At("poll") \in {At(step) : step \in Steps}
  /\ At("load") \in {At(step) : step \in Steps}
  /\ At("swap") \in {At(step) : step \in Steps}
  /\ At("reconcile") \in {At(step) : step \in Steps}
  BY DEF Steps

LEMMA ReloadInitTypes == ReloadInit => HubTypes
<1> SUFFICES ASSUME ReloadInit PROVE HubTypes
  OBVIOUS
<1>1. /\ clock \in 0..MaxClock /\ seen \in {Never} \cup 0..MaxClock
      /\ open \subseteq Binds /\ everEnabled \subseteq Binds
  BY ClockAssumption, BootAssumption DEF ReloadInit
<1>a. fresh \in BOOLEAN
  BY DEF ReloadInit
<1>2. file \in Written \cup {Gone}
  BY ClockAssumption DEF ReloadInit, Written
<1> QED BY <1>1, <1>a, <1>2, StepTypes DEF ReloadInit, HubTypes

LEMMA ReloadTaskKeepsTypes ==
  ASSUME HubTypes, TypeOK, TypeOK', ReloadTask
  PROVE  HubTypes'
<1> USE DEF HubTypes, vars
<1> USE StepTypes
<1>1. CASE PollChanged
  <2>1. seen' \in {Never} \cup 0..MaxClock
    BY <1>1 DEF PollChanged, Changed, Written
  <2> QED BY <1>1, <2>1 DEF PollChanged
<1>2. CASE PollUnchanged
  BY <1>2 DEF PollUnchanged
<1>3. CASE Load
  <2>1. task' = At("reconcile") \/ task' \in [at : {"apply"}, text : Texts \cup {DenyAll, BootText}]
    BY <1>3 DEF Load, Written
  <2> QED BY <1>3, <2>1 DEF Load
<1>4. CASE LoadFails
  <2>1. fresh' \in BOOLEAN
    BY <1>4 DEF LoadFails
  <2> QED BY <1>4, <2>1 DEF LoadFails
<1>5. CASE ReloadGate
  BY <1>5 DEF ReloadGate
<1>6. CASE ReloadReject
  BY <1>6 DEF ReloadReject
<1>7. CASE GiveUp
  BY <1>7 DEF GiveUp
<1>8. CASE ReloadSwap
  BY <1>8 DEF ReloadSwap, TypeOK, Policy
<1>9. CASE Reconcile
  <2>1. task' = [at |-> "perform", actions |-> [open |-> live.binds \ open, close |-> open \ live.binds]]
    BY <1>9 DEF Reconcile, reconcile, Desired
  <2>2. task' \in [at : {"perform"}, actions : [open : SUBSET Binds, close : SUBSET Binds]]
    BY <2>1 DEF TypeOK, Policy
  <2> QED BY <1>9, <2>2 DEF Reconcile
<1>10. CASE \E bind \in Binds : PerformOpen(bind) \/ PerformClose(bind)
  <2>1. PICK bind \in Binds : PerformOpen(bind) \/ PerformClose(bind)
    BY <1>10
  <2>2. task \in [at : {"perform"}, actions : [open : SUBSET Binds, close : SUBSET Binds]]
    BY <2>1 DEF PerformOpen, PerformClose, At, Steps
  <2>3. task' \in [at : {"perform"}, actions : [open : SUBSET Binds, close : SUBSET Binds]]
    BY <2>1, <2>2 DEF PerformOpen, PerformClose
  <2>4. open' \subseteq Binds /\ UNCHANGED <<clock, file, seen, everEnabled, fresh>>
    BY <2>1 DEF PerformOpen, PerformClose
  <2> QED BY <2>3, <2>4
<1>11. CASE Performed
  BY <1>11 DEF Performed
<1> QED
  BY ReloadTask, <1>1, <1>2, <1>3, <1>4, <1>5, <1>6, <1>7, <1>8, <1>9, <1>10, <1>11 DEF ReloadTask

LEMMA SurroundingsKeepTypes ==
  ASSUME HubTypes, TypeOK', Surroundings
  PROVE  HubTypes'
<1> USE DEF HubTypes, vars
<1>1. ASSUME NEW text \in Texts \cup {Malformed}, Edit(text) PROVE HubTypes'
  <2>1. file' \in Written
    BY <1>1 DEF Edit, Written
  <2>2. fresh' \in BOOLEAN
    BY <1>1 DEF Edit
  <2> QED BY <1>1, <2>1, <2>2 DEF Edit
<1>2. CASE Remove
  BY <1>2 DEF Remove
<1>3. CASE Tick
  <2>1. clock' \in 0..MaxClock
    BY <1>3, ClockAssumption DEF Tick
  <2> QED BY <1>3, <2>1 DEF Tick
<1>4. CASE \E a \in Others : OtherSwap(a)
  BY <1>4 DEF OtherSwap, TypeOK, Policy
<1>5. CASE \E a \in Others : \E text \in Texts : OtherGate(a, text)
  BY <1>5 DEF OtherGate, hub
<1> QED BY <1>1, <1>2, <1>3, <1>4, <1>5 DEF Surroundings

(* The hub keeps its types: what is applied is the text of some file, the    *)
(* deny-all policy or the boot policy.                                      *)
THEOREM ReloadTyped == ReloadSpec => []ReloadTypeOK
<1>1. ReloadSpec => []TypeOK
  BY ReloadRefinesStore, StoreWithinBoot, PTL
<1>2. HubTypes /\ TypeOK /\ TypeOK' /\ [ReloadNext]_allVars => HubTypes'
  <2> SUFFICES ASSUME HubTypes, TypeOK, TypeOK', [ReloadNext]_allVars PROVE HubTypes'
    OBVIOUS
  <2>1. CASE UNCHANGED allVars
    BY <2>1 DEF allVars, hub, HubTypes
  <2> QED BY <2>1, ReloadTaskKeepsTypes, SurroundingsKeepTypes DEF ReloadNext
<1>3. HubTypes /\ TypeOK => ReloadTypeOK
  BY DEF ReloadTypeOK
<1> QED BY <1>1, <1>2, <1>3, ReloadInitTypes, PTL DEF ReloadSpec

-----------------------------------------------------------------------------
(* What the reconciler's actions come to                                    *)

(* Where the listeners will be when the actions left to do have been done.   *)
Goal == (open \cup task.actions.open) \ task.actions.close

(* The safety half of ListenersFollow (listener_reconcile.rs:3-7): the        *)
(* actions come to the binds of the policy that was live when they were      *)
(* computed, in any order and whatever is revised while they are performed;  *)
(* nothing else opens or closes a listener, and one that the policy keeps    *)
(* is never closed on the way.                                              *)
THEOREM ActionsReachDesired ==
  ReloadSpec =>
      [][/\ Reconcile => Goal' = live.binds
         /\ task.at = "perform" /\ task'.at = "perform" => Goal' = Goal
         /\ task.at = "perform" /\ task'.at # "perform" => open' = Goal
         /\ task.at # "perform" => open' = open
         /\ open \ open' \subseteq Binds \ Goal]_allVars
<1> DEFINE Step ==
      /\ Reconcile => Goal' = live.binds
      /\ task.at = "perform" /\ task'.at = "perform" => Goal' = Goal
      /\ task.at = "perform" /\ task'.at # "perform" => open' = Goal
      /\ task.at # "perform" => open' = open
      /\ open \ open' \subseteq Binds \ Goal
<1>1. HubTypes /\ [ReloadNext]_allVars => [Step]_allVars
  <2> SUFFICES ASSUME HubTypes, ReloadNext PROVE Step
    OBVIOUS
  <2> DEFINE Open == task.actions.open
             Close == task.actions.close
  <2>1. ASSUME NEW bind \in Binds, PerformOpen(bind) PROVE Step
    <3>1. /\ task.at = "perform" /\ bind \in Open /\ open' = open \cup {bind}
          /\ task' = [task EXCEPT !.actions.open = @ \ {bind}]
      BY <2>1 DEF PerformOpen
    <3>2. task \in [at : {"perform"}, actions : [open : SUBSET Binds, close : SUBSET Binds]]
      BY <3>1 DEF HubTypes, At, Steps
    <3>3. /\ task'.at = "perform"
          /\ task'.actions.open = Open \ {bind} /\ task'.actions.close = Close
      BY <3>1, <3>2
    <3>4. Goal' = Goal
      BY <3>1, <3>3 DEF Goal
    <3>5. ~Reconcile
      BY <3>1 DEF Reconcile, At
    <3> QED BY <3>1, <3>3, <3>4, <3>5
  <2>2. ASSUME NEW bind \in Binds, PerformClose(bind) PROVE Step
    <3>1. /\ task.at = "perform" /\ Open = {} /\ bind \in Close /\ open' = open \ {bind}
          /\ task' = [task EXCEPT !.actions.close = @ \ {bind}]
      BY <2>2 DEF PerformClose
    <3>2. task \in [at : {"perform"}, actions : [open : SUBSET Binds, close : SUBSET Binds]]
      BY <3>1 DEF HubTypes, At, Steps
    <3>3. /\ task'.at = "perform"
          /\ task'.actions.open = Open /\ task'.actions.close = Close \ {bind}
      BY <3>1, <3>2
    <3>4. Goal' = Goal /\ bind \notin Goal
      BY <3>1, <3>3 DEF Goal
    <3>5. ~Reconcile
      BY <3>1 DEF Reconcile, At
    <3> QED BY <3>1, <3>3, <3>4, <3>5
  <2>3. ASSUME Performed PROVE Step
    <3>1. /\ task.at = "perform" /\ Open = {} /\ Close = {}
          /\ task' = At("poll") /\ open' = open
      BY <2>3 DEF Performed
    <3>2. Goal = open /\ ~Reconcile /\ task'.at # "perform"
      BY <3>1 DEF Goal, Reconcile, At
    <3> QED BY <3>1, <3>2
  <2>4. ASSUME Reconcile PROVE Step
    <3>1. /\ task.at # "perform" /\ task'.at = "perform" /\ open' = open
          /\ task'.actions.open = live.binds \ open /\ task'.actions.close = open \ live.binds
      BY <2>4 DEF Reconcile, reconcile, Desired, At
    <3>2. Goal' = live.binds
      BY <3>1 DEF Goal
    <3> QED BY <3>1, <3>2
  <2>5. ASSUME PollChanged \/ PollUnchanged \/ Load \/ LoadFails \/ ReloadGate
                   \/ ReloadReject \/ GiveUp \/ ReloadSwap
        PROVE  Step
    <3>1. open' = open /\ task.at # "perform" /\ ~Reconcile
      BY <2>5 DEF PollChanged, PollUnchanged, Load, LoadFails, ReloadGate, ReloadReject,
                  GiveUp, ReloadSwap, Reconcile, At
    <3> QED BY <3>1
  <2>6. ASSUME Surroundings PROVE Step
    <3>1. open' = open /\ task' = task
      BY <2>6 DEF Surroundings, Edit, Remove, Tick, OtherSwap, OtherGate, hub
    <3>2. Goal' = Goal /\ ~Reconcile
      <4>1. Reconcile => task.at = "reconcile" /\ task'.at = "perform"
        BY DEF Reconcile, At
      <4> QED BY <3>1, <4>1 DEF Goal
    <3> QED BY <3>1, <3>2
  <2> HIDE DEF Step
  <2> QED BY <2>1, <2>2, <2>3, <2>4, <2>5, <2>6 DEF ReloadNext, ReloadTask
<1>2. ReloadSpec => []HubTypes
  <2>1. ReloadTypeOK => HubTypes
    BY DEF ReloadTypeOK
  <2> QED BY <2>1, ReloadTyped, PTL
<1> QED BY <1>1, <1>2, PTL DEF ReloadSpec

-----------------------------------------------------------------------------
(* What becomes of an edit                                                  *)

(* A fresh edit whose edge the watcher has consumed is what the reload loop  *)
(* is about to read, is applying, or has settled.                           *)
Carried ==
    /\ task.at = "apply" => task.text = file.text
    /\ task.at = "swap" =>
           /\ call[Reloader] # Idle
           /\ call[Reloader].candidate.allow = file.text.allow
           /\ call[Reloader].candidate.binds = file.text.binds
    /\ task.at \in {"poll", "reconcile", "perform"} => Settled

EditInv == fresh => file # Gone /\ (~Changed => Carried)

LEMMA EditStepKeeps ==
  ASSUME EditInv, HubTypes, TypeOK, Surroundings
  PROVE  EditInv'
<1> USE DEF EditInv
<1>1. ASSUME NEW text \in Texts \cup {Malformed}, Edit(text) PROVE EditInv'
  <2>1. file'.mtime = clock /\ seen' = seen /\ fresh' = (clock > seen) /\ file' # Gone
    BY <1>1 DEF Edit, Gone
  <2> QED BY <2>1 DEF Changed
<1>2. CASE Remove
  BY <1>2 DEF Remove
<1>3. CASE Tick
  BY <1>3 DEF Tick, vars, Changed, Carried, Settled, InForce
<1>4. CASE \E a \in Others : OtherSwap(a)
  BY <1>4 DEF OtherSwap
<1>5. ASSUME NEW a \in Others, NEW text \in Texts, OtherGate(a, text) PROVE EditInv'
  <2>1. /\ a # Reloader /\ a \in Appliers /\ live' = live /\ UNCHANGED <<file, seen, task, fresh>>
        /\ \E job : call' = [call EXCEPT ![a] = job]
    BY <1>5 DEF OtherGate, FloorGate, Others, hub
  <2>2. call'[Reloader] = call[Reloader]
    BY <2>1, ReloaderAssumption DEF TypeOK
  <2> QED BY <2>1, <2>2 DEF Changed, Carried, Settled, InForce
<1> QED BY <1>1, <1>2, <1>3, <1>4, <1>5 DEF Surroundings

LEMMA LoopStepKeeps ==
  ASSUME EditInv, HubTypes, TypeOK, ReloadTask
  PROVE  EditInv'
<1> SUFFICES ASSUME fresh' PROVE file' # Gone /\ (~Changed' => Carried')
  BY DEF EditInv
<1>1. file' = file /\ fresh
  BY DEF ReloadTask, PollChanged, PollUnchanged, Load, LoadFails, ReloadGate, ReloadReject,
         GiveUp, ReloadSwap, Reconcile, PerformOpen, PerformClose, Performed
<1>2. file # Gone /\ (~Changed => Carried)
  BY <1>1 DEF EditInv
<1> SUFFICES ASSUME ~Changed' PROVE Carried'
  BY <1>1, <1>2
<1>3. CASE PollChanged
  BY <1>3 DEF PollChanged, Carried, At
<1>4. seen' = seen => ~Changed /\ Carried
  BY <1>1, <1>2 DEF Changed
<1>5. live' = live => (Settled <=> Settled')
  BY <1>1 DEF Settled, InForce
<1>6. CASE PollUnchanged
  BY <1>4, <1>5, <1>6 DEF PollUnchanged, Carried, At, vars
<1>7. CASE Load
  <2>1. file.text # Malformed => task' = [at |-> "apply", text |-> file.text]
    BY <1>2, <1>7 DEF Load
  <2>2. file.text = Malformed => task' = At("reconcile") /\ Settled'
    BY <1>1, <1>2, <1>7 DEF Load, Settled
  <2> QED BY <1>1, <2>1, <2>2 DEF Carried, At
<1>8. CASE LoadFails
  <2>1. Changed
    BY <1>8, <1>2 DEF LoadFails, Changed
  <2>2. seen' = seen
    BY <1>8 DEF LoadFails
  <2> QED BY <2>1, <2>2, <1>4
<1>9. CASE ReloadGate
  <2>1. /\ task.at = "apply" /\ task' = At("swap") /\ seen' = seen
        /\ call' = [call EXCEPT ![Reloader] =
               [at |-> "gated", current |-> live,
                candidate |-> [revision |-> live.revision + 1,
                               allow |-> task.text.allow, binds |-> task.text.binds]]]
    BY <1>9 DEF ReloadGate, FloorGate
  <2>2. task.text = file.text
    BY <1>4, <2>1 DEF Carried
  <2>3. /\ call'[Reloader].at = "gated"
        /\ call'[Reloader].candidate.allow = file.text.allow
        /\ call'[Reloader].candidate.binds = file.text.binds
    BY <2>1, <2>2, ReloaderAssumption DEF TypeOK
  <2>4. call'[Reloader] # Idle
    BY <2>3 DEF Idle
  <2> QED BY <1>1, <2>1, <2>3, <2>4 DEF Carried, At
<1>10. CASE ReloadReject
  <2>1. task.at = "apply" /\ Widens(task.text.allow, live) /\ seen' = seen /\ live' = live
        /\ task' = At("reconcile")
    BY <1>10 DEF ReloadReject, Reject, vars
  <2>2. Widens(file.text.allow, live)
    BY <1>4, <2>1 DEF Carried
  <2> QED BY <1>1, <2>1, <2>2 DEF Carried, Settled, At
<1>11. CASE GiveUp
  BY <1>11 DEF GiveUp
<1>12. CASE ReloadSwap
  <2>1. task = At("swap") /\ live' = call[Reloader].candidate /\ seen' = seen
        /\ task' = At("reconcile")
    BY <1>12 DEF ReloadSwap, Swap
  <2>2. live'.allow = file.text.allow /\ live'.binds = file.text.binds
    BY <1>4, <2>1 DEF Carried, At
  <2>3. Settled'
    BY <1>1, <2>2 DEF Settled, InForce
  <2>4. task'.at = "reconcile"
    BY <2>1 DEF At
  <2> QED BY <2>3, <2>4 DEF Carried
<1>13. CASE Reconcile \/ Performed
  <2>1. /\ seen' = seen /\ live' = live
        /\ task.at \in {"reconcile", "perform"} /\ task'.at \in {"poll", "perform"}
    <3>1. CASE Reconcile
      BY <3>1 DEF Reconcile, vars, At
    <3>2. CASE Performed
      BY <3>2 DEF Performed, vars, At
    <3> QED BY <1>13, <3>1, <3>2
  <2>2. Settled'
    BY <1>4, <1>5, <2>1 DEF Carried
  <2> QED BY <2>1, <2>2 DEF Carried
<1>14. ASSUME NEW bind \in Binds, PerformOpen(bind) \/ PerformClose(bind)
       PROVE  Carried'
  <2>1. /\ seen' = seen /\ live' = live /\ task.at = "perform"
    BY <1>14 DEF PerformOpen, PerformClose, vars
  <2>2. task \in [at : {"perform"}, actions : [open : SUBSET Binds, close : SUBSET Binds]]
    BY <2>1 DEF HubTypes, At, Steps
  <2>3. task'.at = "perform"
    BY <1>14, <2>2 DEF PerformOpen, PerformClose
  <2>4. Settled'
    BY <1>4, <1>5, <2>1 DEF Carried
  <2> QED BY <2>3, <2>4 DEF Carried
<1> QED BY ReloadTask, <1>3, <1>6, <1>7, <1>8, <1>9, <1>10, <1>11, <1>12, <1>13, <1>14 DEF ReloadTask

(* The safety half of EditTakesEffect (hot_reload.rs:5-7 and 38-40): the      *)
(* watcher spends the edge of an edit before the file is read, but the edit  *)
(* is not lost with it.  Whenever the loop is past the reload, a fresh edit  *)
(* either is still to be seen, or is in force, or its text has been refused. *)
THEOREM FreshEditIsCarried ==
  ReloadSpec => [](fresh /\ task.at \in {"poll", "reconcile", "perform"} => Changed \/ Settled)
<1>1. ReloadSpec => [](HubTypes /\ TypeOK)
  <2>1. ReloadTypeOK => HubTypes /\ TypeOK
    BY DEF ReloadTypeOK
  <2> QED BY <2>1, ReloadTyped, PTL
<1>2. ReloadInit => EditInv
  BY DEF ReloadInit, EditInv
<1>3. EditInv /\ HubTypes /\ TypeOK /\ [ReloadNext]_allVars => EditInv'
  <2> SUFFICES ASSUME EditInv, HubTypes, TypeOK, [ReloadNext]_allVars PROVE EditInv'
    OBVIOUS
  <2>1. CASE UNCHANGED allVars
    BY <2>1 DEF allVars, hub, vars, EditInv, Changed, Carried, Settled, InForce
  <2> QED BY <2>1, EditStepKeeps, LoopStepKeeps DEF ReloadNext
<1>4. EditInv => (fresh /\ task.at \in {"poll", "reconcile", "perform"} => Changed \/ Settled)
  BY DEF EditInv, Carried
<1> QED BY <1>1, <1>2, <1>3, <1>4, PTL DEF ReloadSpec
=============================================================================
