----------------------------- MODULE LimitsProofs -----------------------------
(***************************************************************************)
(* What may be used once, or only so many times: the operator's kill orders *)
(* (KillSwitch), the tokens of a bucket and the budgets of anchors (Quotas). *)
(*                                                                         *)
(* The kill switch, for any keys, nonces, reasons and snapshots, and any    *)
(* number of crashes.  HaltedIsBacked is not inductive: the receipt is     *)
(* taken from the call in progress, so the invariant must say of that call *)
(* what the archiver holds and what the ledger already records; and that a *)
(* snapshot that fails now is not that of the order that has halted the    *)
(* hub, it must say that the two are different orders.                     *)
(***************************************************************************)
EXTENDS KillSwitch, Quotas, FiniteSetTheorems, TLAPS

(* The call in progress is about an authentic order that is spent, that has *)
(* not failed, and that is not the one the hub was halted by before.        *)
CallInv ==
    handling # NotHandling =>
        /\ handling.order.anchor \in KillAnchors /\ handling.order.signed
        /\ replay_id(handling.order) \in ledger \ failed
        /\ \A order \in halted_by : replay_id(order) # replay_id(handling.order)
        /\ handling.receipt # None => handling.receipt \in durable

(* Orders that halted the hub, or failed to, are spent.                     *)
UsedIsSpent ==
    /\ \A order \in halted_by : replay_id(order) \in ledger
    /\ failed \subseteq ledger

LedgerCounts == \A id \in ReplayIds : handled[id] = IF id \in ledger THEN 1 ELSE 0

KillInv ==
    /\ TypeOK
    /\ HaltedIsBacked
    /\ HaltIsAuthorized
    /\ CallInv
    /\ UsedIsSpent
    /\ LedgerCounts

LEMMA ReplayIdType ==
  ASSUME NEW order \in Order
  PROVE  /\ replay_id(order) \in ReplayIds
         /\ replay_id(order).anchor = order.anchor
         /\ replay_id(order).reason = order.reason
  BY DEF Order, ReplayIds, replay_id

LEMMA CallType ==
  ASSUME TypeOK, handling # NotHandling
  PROVE  handling \in Handling /\ handling.order \in Order
  BY DEF TypeOK, Handling

LEMMA NotHandlingDiffers == NotHandling \notin Handling
  BY DEF NotHandling, Handling

LEMMA InitKill == Init => KillInv
<1> SUFFICES ASSUME Init PROVE KillInv
  OBVIOUS
<1>1. up \in BOOLEAN
  BY DEF Init
<1>2. handled \in [ReplayIds -> Nat] /\ boots \in Nat
  BY DEF Init
<1>3. TypeOK
  BY <1>1, <1>2 DEF Init, TypeOK
<1> QED BY <1>3 DEF Init, KillInv, HaltedIsBacked, HaltIsAuthorized, IsHalted, CallInv,
                    UsedIsSpent, LedgerCounts

(* Boot and Crash: a fresh sequencer has no call, no halt and no ledger.    *)
LEMMA FreshKeepsKill ==
  ASSUME KillInv, Boot \/ Crash
  PROVE  KillInv'
<1>1. /\ ledger' = {} /\ state' = Running /\ handling' = NotHandling
      /\ handled' = [id \in ReplayIds |-> 0] /\ durable' = durable
      /\ halted_by' = {} /\ failed' = {}
  BY DEF Boot, Crash
<1>2. up' \in BOOLEAN
  BY DEF Boot, Crash
<1>3. boots' \in Nat
  BY DEF KillInv, TypeOK, Boot, Crash
<1> QED
  BY <1>1, <1>2, <1>3 DEF KillInv, TypeOK, HaltedIsBacked, HaltIsAuthorized, IsHalted, CallInv,
              UsedIsSpent, LedgerCounts

LEMMA AcceptKeepsKill ==
  ASSUME KillInv, NEW order \in Order, Accept(order)
  PROVE  KillInv'
<1> DEFINE id == replay_id(order)
           job == [at |-> "handling", order |-> order, receipt |-> None]
<1>1. id \in ReplayIds /\ id \notin ledger /\ order.anchor \in KillAnchors /\ order.signed
  BY ReplayIdType DEF Accept, verify
<1>2. /\ ledger' = ledger \cup {id} /\ handling' = job
      /\ handled' = [handled EXCEPT ![id] = @ + 1]
      /\ up' = up /\ boots' = boots /\ state' = state /\ durable' = durable
      /\ halted_by' = halted_by /\ failed' = failed
  BY DEF Accept
<1>3. job \in Handling /\ job.order = order /\ job.receipt = None
  BY DEF Handling
<1>4. TypeOK'
  <2>1. handled' \in [ReplayIds -> Nat]
    BY <1>1, <1>2 DEF KillInv, TypeOK
  <2> QED BY <1>1, <1>2, <1>3, <2>1 DEF KillInv, TypeOK
<1>5. HaltedIsBacked' /\ HaltIsAuthorized'
  BY <1>2 DEF KillInv, HaltedIsBacked, HaltIsAuthorized, IsHalted
<1>6. CallInv' /\ UsedIsSpent'
  <2>1. id \notin failed /\ \A o \in halted_by : replay_id(o) # id
    BY <1>1 DEF KillInv, UsedIsSpent
  <2>2. CallInv'
    BY <1>1, <1>2, <1>3, <2>1 DEF CallInv
  <2> QED BY <1>2, <2>2 DEF KillInv, UsedIsSpent
<1>7. LedgerCounts'
  <2> SUFFICES ASSUME NEW i \in ReplayIds
               PROVE  handled'[i] = IF i \in ledger' THEN 1 ELSE 0
    BY DEF LedgerCounts
  <2>1. CASE i = id
    BY <2>1, <1>1, <1>2 DEF KillInv, TypeOK, LedgerCounts
  <2>2. CASE i # id
    BY <2>2, <1>1, <1>2 DEF KillInv, TypeOK, LedgerCounts
  <2> QED BY <2>1, <2>2
<1> QED BY <1>4, <1>5, <1>6, <1>7 DEF KillInv

LEMMA ConfirmKeepsKill ==
  ASSUME KillInv, NEW receipt \in Receipts, Confirm(receipt)
  PROVE  KillInv'
<1>1. /\ handling # NotHandling
      /\ durable' = durable \cup {receipt}
      /\ handling' = [handling EXCEPT !.receipt = receipt]
      /\ up' = up /\ boots' = boots /\ ledger' = ledger /\ state' = state /\ handled' = handled
      /\ halted_by' = halted_by /\ failed' = failed
  BY DEF Confirm, history
<1>2. handling \in Handling
  BY <1>1, CallType DEF KillInv
<1>3. /\ handling' \in Handling
      /\ handling'.order = handling.order /\ handling'.receipt = receipt
  BY <1>1, <1>2 DEF Handling
<1>4. TypeOK'
  BY <1>1, <1>3 DEF KillInv, TypeOK
<1>5. HaltedIsBacked' /\ HaltIsAuthorized'
  BY <1>1 DEF KillInv, HaltedIsBacked, HaltIsAuthorized, IsHalted
<1>6. CallInv' /\ UsedIsSpent' /\ LedgerCounts'
  BY <1>1, <1>3 DEF KillInv, CallInv, UsedIsSpent, LedgerCounts
<1> QED BY <1>4, <1>5, <1>6 DEF KillInv

(* A snapshot that fails takes nothing from the order of an earlier halt.   *)
LEMMA RefuseKeepsKill ==
  ASSUME KillInv, Refuse
  PROVE  KillInv'
<1> DEFINE id == replay_id(handling.order)
<1>1. /\ handling # NotHandling /\ handling' = NotHandling /\ failed' = failed \cup {id}
      /\ up' = up /\ boots' = boots /\ ledger' = ledger /\ state' = state
      /\ durable' = durable /\ handled' = handled /\ halted_by' = halted_by
  BY DEF Refuse
<1>2. /\ id \in ledger /\ id \in ReplayIds
      /\ \A order \in halted_by : replay_id(order) # id
  BY <1>1, CallType, ReplayIdType DEF KillInv, CallInv
<1>3. TypeOK'
  BY <1>1, <1>2 DEF KillInv, TypeOK
<1>4. HaltIsAuthorized' /\ HaltedIsBacked'
  BY <1>1, <1>2 DEF KillInv, HaltIsAuthorized, HaltedIsBacked, IsHalted
<1>5. CallInv' /\ UsedIsSpent' /\ LedgerCounts'
  BY <1>1, <1>2 DEF KillInv, CallInv, UsedIsSpent, LedgerCounts
<1> QED BY <1>3, <1>4, <1>5 DEF KillInv

LEMMA HaltKeepsKill ==
  ASSUME KillInv, Halt
  PROVE  KillInv'
<1> DEFINE order == handling.order
           halted == [at |-> "halted", receipt |-> handling.receipt, reason |-> order.reason]
<1>1. /\ handling # NotHandling /\ handling.receipt # None
      /\ state' = halted /\ handling' = NotHandling /\ halted_by' = {order}
      /\ up' = up /\ boots' = boots /\ ledger' = ledger /\ durable' = durable
      /\ handled' = handled /\ failed' = failed
  BY DEF Halt
<1>2. handling \in Handling /\ order \in Order
  BY <1>1, CallType DEF KillInv
<1>3. /\ order.anchor \in KillAnchors /\ order.signed /\ replay_id(order) \in ledger \ failed
      /\ handling.receipt \in durable
  BY <1>1 DEF KillInv, CallInv
<1>4. halted \in Halted
  BY <1>1, <1>2 DEF Handling, Halted, Order
<1>5. TypeOK'
  BY <1>1, <1>2, <1>4 DEF KillInv, TypeOK
<1>6. HaltedIsBacked' /\ HaltIsAuthorized'
  BY <1>1, <1>3 DEF HaltedIsBacked, HaltIsAuthorized, IsHalted
<1>7. CallInv' /\ UsedIsSpent' /\ LedgerCounts'
  BY <1>1, <1>3 DEF KillInv, CallInv, UsedIsSpent, LedgerCounts
<1> QED BY <1>5, <1>6, <1>7 DEF KillInv

LEMMA NextKill == KillInv /\ [Next]_vars => KillInv'
<1> SUFFICES ASSUME KillInv, [Next]_vars PROVE KillInv'
  OBVIOUS
<1>1. CASE UNCHANGED vars
  BY <1>1 DEF vars, history, KillInv, TypeOK, HaltedIsBacked, HaltIsAuthorized, IsHalted,
              CallInv, UsedIsSpent, LedgerCounts
<1>2. CASE Boot \/ Crash
  BY <1>2, FreshKeepsKill
<1>3. CASE \E order \in Order : Accept(order)
  BY <1>3, AcceptKeepsKill
<1>4. CASE \E order \in Order : RejectOrder(order)
  BY <1>4, <1>1 DEF RejectOrder
<1>5. CASE \E receipt \in Receipts : Confirm(receipt)
  BY <1>5, ConfirmKeepsKill
<1>6. CASE Refuse
  BY <1>6, RefuseKeepsKill
<1>7. CASE Halt
  BY <1>7, HaltKeepsKill
<1> QED BY <1>1, <1>2, <1>3, <1>4, <1>5, <1>6, <1>7 DEF Next

(* A hub that is halted has its snapshot stored, and an enrolled anchor      *)
(* signed the order that halted it, with that reason; that order is spent,   *)
(* and no snapshot ever failed for it, in every reachable state.             *)
THEOREM HaltIsBackedAndAuthorized == Spec => [](TypeOK /\ HaltedIsBacked /\ HaltIsAuthorized)
<1>1. KillInv => TypeOK /\ HaltedIsBacked /\ HaltIsAuthorized
  BY DEF KillInv
<1> QED BY InitKill, NextKill, <1>1, PTL DEF Spec

(* No order is accepted twice between two boots.                            *)
THEOREM KillOrderAcceptedOnce == Spec => []OrderAcceptedOnce
<1>1. KillInv => OrderAcceptedOnce
  <2> SUFFICES ASSUME KillInv, NEW id \in ReplayIds PROVE handled[id] <= 1
    BY DEF OrderAcceptedOnce
  <2>1. handled[id] = 0 \/ handled[id] = 1
    BY DEF KillInv, LedgerCounts
  <2> QED BY <2>1
<1> QED BY InitKill, NextKill, <1>1, PTL DEF Spec

-----------------------------------------------------------------------------
(* The quotas: any number of tasks, anchors, copies and readings of the      *)
(* clock, whatever the capacity, the rate and the length of an epoch.       *)

LEMMA EpochType ==
  ASSUME NEW t \in Times
  PROVE  issuance_epoch(t) \in Epochs
<1>1. t \in Nat /\ t <= MaxTime /\ MaxTime \in Nat /\ EpochLen \in Nat
  BY QuotaAssumption DEF Times
<1>2. CASE EpochLen = 0
  BY <1>1, <1>2 DEF issuance_epoch, Epochs
<1>3. CASE EpochLen # 0
  <2>1. t \div EpochLen \in Nat /\ t \div EpochLen <= t
    BY <1>1, <1>3
  <2> QED BY <1>1, <1>3, <2>1 DEF issuance_epoch, Epochs
<1> QED BY <1>2, <1>3

LEMMA RefilledType ==
  ASSUME QuotaTypeOK, NEW at \in Times
  PROVE  /\ elapsed(at) \in Nat /\ refilled(at) \in 0 .. Capacity
         /\ refilled(at) <= bucket.tokens + elapsed(at) * RefillPerSec
<1>1. /\ bucket.tokens \in 0 .. Capacity /\ bucket.last \in {0} \cup Times
      /\ Capacity \in Nat /\ RefillPerSec \in Nat
  BY QuotaAssumption DEF QuotaTypeOK
<1>2. elapsed(at) \in Nat
  BY <1>1 DEF elapsed, Times
<1>3. elapsed(at) * RefillPerSec \in Nat
  BY <1>1, <1>2
<1> QED BY <1>1, <1>2, <1>3 DEF refilled, Earlier

LEMMA ChargedType ==
  ASSUME QuotaTypeOK, NEW c \in Copies
  PROVE  charge_issuance(budget[c]) \in [epoch : Epochs, minted_count : Nat]
<1>1. budget[c] \in [epoch : Epochs, minted_count : Nat]
  BY DEF QuotaTypeOK
<1>2. issuance_epoch(now) \in Epochs
  BY EpochType DEF QuotaTypeOK
<1> QED BY <1>1, <1>2 DEF charge_issuance

(* What mints: the copy that is charged is of the anchor that issues.        *)
LEMMA MintIs ==
  ASSUME QuotaTypeOK, NEW c \in Copies, NEW a \in Anchors, sign_delegation_budgeted(c, a)
  PROVE  LET e == issuance_epoch(now) IN
         /\ AnchorId[c] = a /\ e \in Epochs /\ budget[c].epoch <= e
         /\ budget[c].minted_count < MaxPerEpoch
         /\ budget' = [budget EXCEPT ![c] = charge_issuance(budget[c])]
         /\ minted' = [minted EXCEPT ![a] = [minted[a] EXCEPT ![e] = minted[a][e] + 1]]
<1>1. issuance_epoch(now) \in Epochs
  BY EpochType DEF QuotaTypeOK
<1>2. budget[c].epoch \in Epochs
  BY DEF QuotaTypeOK
<1> QED BY <1>1, <1>2 DEF sign_delegation_budgeted, can_issue, Epochs

LEMMA InitQuota == QuotaInit => QuotaTypeOK
<1> SUFFICES ASSUME QuotaInit PROVE QuotaTypeOK
  OBVIOUS
<1>1. /\ 1 \in Times /\ 0 \in 0 .. MaxSteps /\ Capacity \in 0 .. Capacity /\ 0 \in Epochs
  BY QuotaAssumption DEF Times, Epochs
<1>2. bucket \in [tokens : 0 .. Capacity, last : {0} \cup Times]
  BY <1>1 DEF QuotaInit
<1>3. grants \in [count : Nat, first : {0} \cup Times, back : Nat]
  BY DEF QuotaInit
<1>4. budget \in [Copies -> [epoch : Epochs, minted_count : Nat]]
  BY <1>1 DEF QuotaInit
<1>5. minted \in [Anchors -> [Epochs -> Nat]]
  BY DEF QuotaInit
<1>6. seen \in [Tasks -> {-1} \cup Times]
  BY DEF QuotaInit
<1> QED BY <1>1, <1>2, <1>3, <1>4, <1>5, <1>6 DEF QuotaInit, QuotaTypeOK

LEMMA TimeKeepsTypes ==
  ASSUME QuotaTypeOK, Tick \/ \E t \in Times : SetClock(t)
  PROVE  QuotaTypeOK'
<1>1. UNCHANGED <<accepting, issuing>>
  BY DEF Tick, SetClock
<1>2. now' \in Times
  BY QuotaAssumption DEF Tick, SetClock, QuotaTypeOK, Times
<1>3. steps' \in 0 .. MaxSteps
  BY QuotaAssumption DEF Tick, SetClock, QuotaTypeOK
<1> QED BY <1>1, <1>2, <1>3 DEF QuotaTypeOK, accepting, issuing

LEMMA BucketKeepsTypes ==
  ASSUME QuotaTypeOK, NEW t \in Tasks, Arrive(t) \/ try_acquire(t)
  PROVE  QuotaTypeOK'
<1>1. UNCHANGED <<clock, issuing>>
  BY DEF Arrive, try_acquire
<1>2. seen' \in [Tasks -> {-1} \cup Times]
  BY DEF Arrive, try_acquire, QuotaTypeOK
<1>3. /\ bucket' \in [tokens : 0 .. Capacity, last : {0} \cup Times]
      /\ grants' \in [count : Nat, first : {0} \cup Times, back : Nat]
  <2>1. CASE UNCHANGED <<bucket, grants>>
    BY <2>1 DEF QuotaTypeOK
  <2>2. CASE ~UNCHANGED <<bucket, grants>>
    <3>1. /\ seen[t] # -1 /\ refilled(seen[t]) # 0
          /\ bucket' = [tokens |-> refilled(seen[t]) - 1, last |-> seen[t]]
          /\ grants' = Account(seen[t])
      BY <2>2 DEF Arrive, try_acquire
    <3>2. seen[t] \in Times
      BY <3>1 DEF QuotaTypeOK
    <3>3. refilled(seen[t]) - 1 \in 0 .. Capacity
      BY <3>1, <3>2, RefilledType, QuotaAssumption
    <3>4. Account(seen[t]) \in [count : Nat, first : {0} \cup Times, back : Nat]
      BY <3>2 DEF Account, QuotaTypeOK, Times
    <3> QED BY <3>1, <3>2, <3>3, <3>4
  <2> QED BY <2>1, <2>2
<1> QED BY <1>1, <1>2, <1>3 DEF QuotaTypeOK, clock, issuing

LEMMA BudgetKeepsTypes ==
  ASSUME QuotaTypeOK, NEW c \in Copies,
         Rearm(c) \/ \E a \in Anchors : sign_delegation_budgeted(c, a)
  PROVE  QuotaTypeOK'
<1>1. UNCHANGED <<clock, accepting, revoked>>
  BY DEF Rearm, sign_delegation_budgeted
<1>2. budget' \in [Copies -> [epoch : Epochs, minted_count : Nat]]
  BY ChargedType DEF Rearm, sign_delegation_budgeted, QuotaTypeOK
<1>3. minted' \in [Anchors -> [Epochs -> Nat]]
  <2>1. CASE Rearm(c)
    BY <2>1 DEF Rearm, QuotaTypeOK
  <2>2. ASSUME NEW a \in Anchors, sign_delegation_budgeted(c, a)
        PROVE  minted' \in [Anchors -> [Epochs -> Nat]]
    BY <2>2, MintIs DEF QuotaTypeOK
  <2> QED BY <2>1, <2>2
<1> QED BY <1>1, <1>2, <1>3 DEF QuotaTypeOK, clock, accepting

LEMMA NextKeepsTypes ==
  ASSUME QuotaTypeOK, [QuotaNext]_quotaVars
  PROVE  QuotaTypeOK'
<1>1. ASSUME NEW a \in Anchors, revoke_key(a) PROVE QuotaTypeOK'
  BY <1>1 DEF revoke_key, QuotaTypeOK, clock, accepting
<1>2. CASE UNCHANGED quotaVars
  BY <1>2 DEF quotaVars, clock, accepting, issuing, QuotaTypeOK
<1> QED BY <1>1, <1>2, TimeKeepsTypes, BucketKeepsTypes, BudgetKeepsTypes DEF QuotaNext

(* Both clocks, the bucket and the budgets keep their types: the bucket      *)
(* never holds more than its capacity nor less than nothing.                *)
THEOREM QuotasTyped == QuotaSpec => []QuotaTypeOK
<1> QED BY InitQuota, NextKeepsTypes, PTL DEF QuotaSpec

-----------------------------------------------------------------------------
(* Until its first grant the bucket is as it was made; then every token it   *)
(* has given out or still holds was there at the start or has been earned.  *)
Untouched == grants.count = 0 => bucket.tokens = Capacity /\ bucket.last = 0 /\ grants.back = 0

RateInv == QuotaTypeOK /\ Untouched /\ RateBounded

LEMMA Distributes ==
  ASSUME NEW x \in Int, NEW y \in Int, NEW r \in Int
  PROVE  r * (x + y) = r * x + y * r
  OBVIOUS

LEMMA GrantKeepsRate ==
  ASSUME RateInv, NEW t \in Tasks, try_acquire(t)
  PROVE  Untouched' /\ RateBounded'
<1> DEFINE at == seen[t]
           e == elapsed(at)
           span == bucket.last - grants.first + grants.back
<1>1. CASE UNCHANGED <<bucket, grants>>
  BY <1>1 DEF RateInv, Untouched, RateBounded
<1>2. CASE ~UNCHANGED <<bucket, grants>>
  <2>1. /\ at # -1 /\ bucket' = [tokens |-> refilled(at) - 1, last |-> at]
        /\ grants' = Account(at)
    BY <1>2 DEF try_acquire
  <2>2. at \in Times
    BY <2>1 DEF RateInv, QuotaTypeOK
  <2>3. /\ grants.count \in Nat /\ grants.first \in Nat /\ grants.back \in Nat
        /\ bucket.tokens \in 0 .. Capacity /\ bucket.last \in Nat
        /\ Capacity \in Nat /\ RefillPerSec \in Nat /\ at \in Nat /\ at > 0
    BY <2>2, QuotaAssumption DEF RateInv, QuotaTypeOK, Times
  <2>4. /\ e \in Nat /\ refilled(at) \in 0 .. Capacity
        /\ refilled(at) <= bucket.tokens + e * RefillPerSec
    BY <2>2, RefilledType DEF RateInv
  <2>5. /\ bucket'.tokens = refilled(at) - 1 /\ bucket'.last = at
        /\ grants'.count = grants.count + 1
        /\ grants'.first = IF grants.count = 0 THEN at ELSE grants.first
        /\ grants'.back = grants.back + IF at < bucket.last THEN bucket.last - at ELSE 0
    BY <2>1 DEF Account
  <2>6. Untouched'
    BY <2>3, <2>5 DEF Untouched
  <2>7. CASE grants.count = 0
    <3>1. bucket'.last - grants'.first + grants'.back = 0
      BY <2>3, <2>5, <2>7 DEF RateInv, Untouched
    <3>2. RefillPerSec * (bucket'.last - grants'.first + grants'.back) = 0
      BY <3>1, <2>3
    <3> QED BY <2>3, <2>4, <2>5, <2>6, <2>7, <3>2 DEF RateBounded
  <2>8. CASE grants.count > 0
    <3>1. bucket'.last - grants'.first + grants'.back = span + e
      BY <2>3, <2>5, <2>8 DEF elapsed
    <3>2. RefillPerSec * (span + e) = RefillPerSec * span + e * RefillPerSec
      BY <2>3, <2>4, Distributes
    <3>3. grants.count + bucket.tokens <= Capacity + RefillPerSec * span
      BY <2>8 DEF RateInv, RateBounded
    <3>4. /\ RefillPerSec * span \in Int /\ e * RefillPerSec \in Int
          /\ RefillPerSec * (bucket'.last - grants'.first + grants'.back)
                = RefillPerSec * span + e * RefillPerSec
      BY <2>3, <2>4, <3>1, <3>2
    <3>5. grants'.count + bucket'.tokens
            <= Capacity + RefillPerSec * (bucket'.last - grants'.first + grants'.back)
      BY <2>3, <2>4, <2>5, <3>3, <3>4
    <3> QED BY <2>6, <3>5 DEF RateBounded
  <2> QED BY <2>3, <2>7, <2>8
<1> QED BY <1>1, <1>2

LEMMA NextRate ==
  ASSUME RateInv, [QuotaNext]_quotaVars
  PROVE  RateInv'
<1>1. QuotaTypeOK'
  BY NextKeepsTypes DEF RateInv
<1>2. CASE UNCHANGED <<bucket, grants>>
  BY <1>1, <1>2 DEF RateInv, Untouched, RateBounded
<1>3. CASE ~UNCHANGED <<bucket, grants>>
  <2>1. PICK t \in Tasks : try_acquire(t)
    BY <1>3 DEF QuotaNext, Tick, SetClock, Arrive, Rearm, sign_delegation_budgeted,
                revoke_key, quotaVars, accepting
  <2> QED BY <1>1, <2>1, GrantKeepsRate DEF RateInv
<1> QED BY <1>2, <1>3

(* transport_policy.rs:26-28: whatever the clock does and in whatever order   *)
(* the tasks come, the bucket never gives out more than it held and earned. *)
THEOREM BucketKeepsRate == QuotaSpec => []RateBounded
<1>1. QuotaInit => RateInv
  BY InitQuota DEF RateInv, Untouched, RateBounded, QuotaInit
<1>2. RateInv => RateBounded
  BY DEF RateInv
<1> QED BY <1>1, <1>2, NextRate, PTL DEF QuotaSpec

-----------------------------------------------------------------------------
(* Each delegation that an anchor has minted in an epoch has used up a unit   *)
(* <<c, k>> of one of its copies, and no two of them the same unit.  A unit  *)
(* stays used: the copy has moved past the epoch, or counts at least k in it. *)
Units(a) == CopiesOf(a) \X (1 .. MaxPerEpoch)

Used(unit, e) ==
    LET b == budget[unit[1]] IN
    e < b.epoch \/ (e = b.epoch /\ unit[2] <= b.minted_count)

Backed(a, e) ==
    \E S \in SUBSET Units(a) :
        Cardinality(S) = minted[a][e] /\ \A unit \in S : Used(unit, e)

MintInv == QuotaTypeOK /\ \A a \in Anchors, e \in Epochs : Backed(a, e)

LEMMA UnitsAre ==
  ASSUME NEW a \in Anchors
  PROVE  /\ IsFiniteSet(Units(a)) /\ Cardinality(CopiesOf(a)) \in Nat
         /\ Cardinality(Units(a)) = MaxPerEpoch * Cardinality(CopiesOf(a))
<1>1. IsFiniteSet(CopiesOf(a))
  BY QuotaAssumption, FS_Subset DEF CopiesOf
<1>2. IsFiniteSet(1 .. MaxPerEpoch) /\ Cardinality(1 .. MaxPerEpoch) = MaxPerEpoch
  BY QuotaAssumption, FS_Interval
<1>3. /\ IsFiniteSet(Units(a))
      /\ Cardinality(Units(a)) = Cardinality(CopiesOf(a)) * Cardinality(1 .. MaxPerEpoch)
  BY <1>1, <1>2, FS_Product DEF Units
<1>4. Cardinality(CopiesOf(a)) \in Nat
  BY <1>1, FS_CardinalityType
<1> QED BY <1>2, <1>3, <1>4, QuotaAssumption

LEMMA BackedIsBounded ==
  ASSUME NEW a \in Anchors, NEW e \in Epochs, Backed(a, e)
  PROVE  minted[a][e] <= MaxPerEpoch * Cardinality(CopiesOf(a))
<1>1. PICK S \in SUBSET Units(a) : Cardinality(S) = minted[a][e]
  BY DEF Backed
<1>2. Cardinality(S) <= Cardinality(Units(a))
  BY <1>1, UnitsAre, FS_Subset
<1> QED BY <1>1, <1>2, UnitsAre

(* Charging a copy never sets it back, so what was used stays used.          *)
LEMMA ChargeKeepsUsed ==
  ASSUME QuotaTypeOK, NEW c \in Copies, budget[c].epoch <= issuance_epoch(now),
         budget' = [budget EXCEPT ![c] = charge_issuance(budget[c])],
         NEW a \in Anchors, NEW unit \in Units(a), NEW e \in Epochs, Used(unit, e)
  PROVE  Used(unit, e)'
<1>1. unit[1] \in Copies /\ unit[2] \in Nat /\ e \in Nat
  BY QuotaAssumption DEF Units, CopiesOf, Epochs
<1>2. /\ budget[unit[1]].epoch \in Nat /\ budget[unit[1]].minted_count \in Nat
      /\ issuance_epoch(now) \in Nat
  BY <1>1, EpochType DEF QuotaTypeOK, Epochs
<1>3. CASE unit[1] # c
  BY <1>1, <1>3 DEF Used, QuotaTypeOK
<1>4. CASE unit[1] = c
  <2>1. budget'[unit[1]] = charge_issuance(budget[unit[1]])
    BY <1>4 DEF QuotaTypeOK
  <2>2. budget[unit[1]] = [epoch |-> budget[unit[1]].epoch, minted_count |-> budget[unit[1]].minted_count]
    BY <1>1 DEF QuotaTypeOK
  <2>3. \/ budget'[unit[1]].epoch > budget[unit[1]].epoch
        \/ /\ budget'[unit[1]].epoch = budget[unit[1]].epoch
           /\ budget'[unit[1]].minted_count = budget[unit[1]].minted_count + 1
    BY <1>2, <2>1, <2>2 DEF charge_issuance
  <2>4. budget'[unit[1]].epoch \in Nat /\ budget'[unit[1]].minted_count \in Nat
    BY <1>1, <2>1, ChargedType DEF Epochs
  <2> QED BY <1>1, <1>2, <2>3, <2>4 DEF Used
<1> QED BY <1>3, <1>4

LEMMA RearmKeepsMint ==
  ASSUME MintInv, NEW c \in Copies, Rearm(c), NEW a \in Anchors, NEW e \in Epochs
  PROVE  Backed(a, e)'
<1>1. PICK S \in SUBSET Units(a) : Cardinality(S) = minted[a][e] /\ \A unit \in S : Used(unit, e)
  BY DEF MintInv, Backed
<1>2. budget[c].epoch <= issuance_epoch(now)
  BY EpochType DEF Rearm, MintInv, QuotaTypeOK, Epochs
<1>3. \A unit \in S : Used(unit, e)'
  BY <1>1, <1>2, ChargeKeepsUsed DEF Rearm, MintInv
<1>4. minted' = minted
  BY DEF Rearm
<1> QED BY <1>1, <1>3, <1>4 DEF Backed, Units, CopiesOf

(* A new delegation uses a unit that none of the earlier ones had.           *)
LEMMA MintKeepsMint ==
  ASSUME MintInv, NEW c \in Copies, NEW owner \in Anchors, sign_delegation_budgeted(c, owner),
         NEW a \in Anchors, NEW e \in Epochs
  PROVE  Backed(a, e)'
<1> DEFINE epoch == issuance_epoch(now)
<1>1. PICK S \in SUBSET Units(a) : Cardinality(S) = minted[a][e] /\ \A unit \in S : Used(unit, e)
  BY DEF MintInv, Backed
<1>2. /\ AnchorId[c] = owner /\ epoch \in Epochs /\ budget[c].epoch <= epoch
      /\ budget[c].minted_count < MaxPerEpoch
      /\ budget' = [budget EXCEPT ![c] = charge_issuance(budget[c])]
      /\ minted' = [minted EXCEPT ![owner] = [minted[owner] EXCEPT ![epoch] = minted[owner][epoch] + 1]]
  BY MintIs DEF MintInv
<1>3. \A unit \in S : Used(unit, e)'
  BY <1>1, <1>2, ChargeKeepsUsed DEF MintInv
<1>4. CASE a # owner \/ e # epoch
  <2>1. minted'[a][e] = minted[a][e]
    BY <1>2, <1>4 DEF MintInv, QuotaTypeOK
  <2> QED BY <1>1, <1>3, <2>1 DEF Backed, Units, CopiesOf
<1>5. CASE a = owner /\ e = epoch
  <2>1. /\ budget[c] \in [epoch : Epochs, minted_count : Nat]
        /\ budget[c].epoch \in Nat /\ budget[c].minted_count \in Nat /\ epoch \in Nat
        /\ MaxPerEpoch \in Nat
    <3>1. budget[c] \in [epoch : Epochs, minted_count : Nat] /\ issuance_epoch(now) \in Epochs
      BY <1>2 DEF MintInv, QuotaTypeOK
    <3> QED BY <3>1, QuotaAssumption DEF Epochs
  <2>2. budget'[c] = charge_issuance(budget[c])
    BY <1>2 DEF MintInv, QuotaTypeOK
  <2>3. PICK k \in 1 .. MaxPerEpoch :
          k = IF epoch > budget[c].epoch THEN 1 ELSE budget[c].minted_count + 1
    BY <1>2, <2>1
  <2> DEFINE fresh == <<c, k>>
  <2>4. fresh \in Units(a) /\ fresh[1] = c /\ fresh[2] = k
    BY <1>2, <1>5, <2>3 DEF Units, CopiesOf
  <2>5. fresh \notin S
    <3>1. ~Used(fresh, e)
      BY <1>2, <1>5, <2>1, <2>3, <2>4 DEF Used
    <3> QED BY <1>1, <3>1
  <2>6. budget'[c].epoch = epoch /\ budget'[c].minted_count = k
    BY <1>2, <2>1, <2>2, <2>3 DEF charge_issuance
  <2>7. Used(fresh, e)'
    <3>1. e = budget'[c].epoch /\ k <= budget'[c].minted_count
      BY <1>5, <2>3, <2>6
    <3> QED BY <3>1 DEF Used
  <2>8. IsFiniteSet(S)
    BY UnitsAre, FS_Subset
  <2>9. Cardinality(S \cup {fresh}) = minted[a][e] + 1
    BY <1>1, <2>5, <2>8, FS_AddElement
  <2>10. minted'[a][e] = minted[a][e] + 1
    BY <1>2, <1>5 DEF MintInv, QuotaTypeOK
  <2>11. S \cup {fresh} \in SUBSET Units(a)
    BY <1>1, <2>4
  <2>12. \A unit \in S \cup {fresh} : Used(unit, e)'
    BY <1>3, <2>7
  <2>13. Units(a)' = Units(a)
    BY DEF Units, CopiesOf
  <2> QED BY <2>9, <2>10, <2>11, <2>12, <2>13 DEF Backed
<1> QED BY <1>4, <1>5

LEMMA NextMint ==
  ASSUME MintInv, [QuotaNext]_quotaVars
  PROVE  MintInv'
<1>1. QuotaTypeOK'
  BY NextKeepsTypes DEF MintInv
<1>2. ASSUME NEW a \in Anchors, NEW e \in Epochs PROVE Backed(a, e)'
  <2>1. CASE UNCHANGED <<budget, minted>>
    BY <2>1 DEF MintInv, Backed, Used, Units, CopiesOf
  <2>2. CASE ~UNCHANGED <<budget, minted>>
    <3>1. PICK c \in Copies : Rearm(c) \/ \E owner \in Anchors : sign_delegation_budgeted(c, owner)
      BY <2>2 DEF QuotaNext, Tick, SetClock, Arrive, try_acquire, revoke_key, quotaVars, issuing
    <3> QED BY <3>1, RearmKeepsMint, MintKeepsMint
  <2> QED BY <2>1, <2>2
<1> QED BY <1>1, <1>2 DEF MintInv

(* node_id.rs:205-220: an anchor with any number of copies of its budget      *)
(* mints no more in an epoch than all of them allow, even if the clock comes *)
(* back to that epoch and the copies are re-armed in between.               *)
THEOREM AnchorMintsCapped == QuotaSpec => []MintsCapped
<1>1. QuotaInit => MintInv
  <2> SUFFICES ASSUME QuotaInit PROVE MintInv
    OBVIOUS
  <2>1. \A a \in Anchors, e \in Epochs : minted[a][e] = 0
    BY DEF QuotaInit
  <2>2. \A a \in Anchors, e \in Epochs : Backed(a, e)
    BY <2>1, FS_EmptySet DEF Backed
  <2> QED BY <2>2, InitQuota DEF MintInv
<1>2. MintInv => MintsCapped
  BY BackedIsBounded DEF MintInv, MintsCapped
<1> QED BY <1>1, <1>2, NextMint, PTL DEF QuotaSpec
=============================================================================
