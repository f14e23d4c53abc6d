-------------------------------- MODULE Quotas --------------------------------
(***************************************************************************)
(* Two limits that are counted against a clock which may be set back: the   *)
(* token bucket in front of accept (TokenBucket of proto-wire/src/          *)
(* transport_policy.rs, and ConnBucket of wss_transport.rs, which is the    *)
(* same code), and the budget of delegations that an anchor may mint in an  *)
(* epoch (proto-cap/src/node_id.rs).                                       *)
(*                                                                         *)
(* The caller reads the clock and then takes the lock of the bucket, so     *)
(* tasks may pass the bucket in another order than they read the clock.     *)
(* A budget is a value: a caller may have several copies of one, and each   *)
(* is charged for itself.                                                  *)
(***************************************************************************)
EXTENDS Integers, FiniteSets

CONSTANTS
    Tasks,        \* tasks that accept connections, of one source IP
    Capacity, RefillPerSec,
    Anchors,
    Copies,       \* copies of budgets that callers hold
    AnchorId,     \* the anchor of each copy
    MaxPerEpoch,
    EpochLen,     \* in ticks; 0 is one epoch for ever
    MaxTime,      \* bound: readings of the clock
    MaxSteps,     \* bound: how often the clock is set
    MaxGrants     \* bound: tokens given out

ASSUME QuotaAssumption ==
    /\ Capacity \in Nat \ {0} /\ RefillPerSec \in Nat
    /\ IsFiniteSet(Copies) /\ AnchorId \in [Copies -> Anchors]
    /\ MaxPerEpoch \in Nat /\ EpochLen \in Nat
    /\ MaxTime \in Nat \ {0} /\ MaxSteps \in Nat /\ MaxGrants \in Nat

VARIABLES
    now,          \* unix seconds, and ticks
    steps,        \* how often the clock was set
    seen,         \* the reading with which a task is about to ask; -1: none
    bucket,       \* TokenBucket.state
    grants,       \* history: tokens given out, when the first was, and by how
                  \* many seconds in all the bucket was set back
    budget,       \* the budget in each copy
    revoked,      \* RevocationSet: keys of anchors
    minted        \* history: delegations per anchor and epoch

clock == <<now, steps>>
accepting == <<seen, bucket, grants>>
issuing == <<budget, revoked, minted>>
quotaVars == <<clock, accepting, issuing>>

Times == 1 .. MaxTime

(* issuance_epoch                                                           *)
issuance_epoch(t) == IF EpochLen = 0 THEN 0 ELSE t \div EpochLen

Epochs == 0 .. MaxTime

QuotaInit ==
    /\ now = 1 /\ steps = 0
    /\ seen = [t \in Tasks |-> -1]
    /\ bucket = [tokens |-> Capacity, last |-> 0]
    /\ grants = [count |-> 0, first |-> 0, back |-> 0]
    /\ budget = [c \in Copies |-> [epoch |-> 0, minted_count |-> 0]]
    /\ revoked = {}
    /\ minted = [a \in Anchors |-> [e \in Epochs |-> 0]]

(* The clock advances by a second, or is set to another time.               *)
Tick ==
    /\ now < MaxTime
    /\ now' = now + 1
    /\ UNCHANGED <<steps, accepting, issuing>>

SetClock(t) ==
    /\ steps < MaxSteps /\ t # now
    /\ steps' = steps + 1
    /\ now' = t
    /\ UNCHANGED <<accepting, issuing>>

-----------------------------------------------------------------------------
(* The bucket                                                               *)
Arrive(t) ==
    /\ seen[t] = -1
    /\ seen' = [seen EXCEPT ![t] = now]
    /\ UNCHANGED <<clock, bucket, grants, issuing>>

Earlier(x, y) == IF x < y THEN x ELSE y

elapsed(at) == IF at > bucket.last THEN at - bucket.last ELSE 0

\* mutant of refilled: the tokens that were left are not capped
refilled_uncapped(at) == bucket.tokens + Earlier(elapsed(at) * RefillPerSec, Capacity)

(* The bucket starts full, with 0 for the time of its last refill.          *)
refilled(at) == Earlier(bucket.tokens + elapsed(at) * RefillPerSec, Capacity)

Account(at) ==
    [count |-> grants.count + 1,
     first |-> IF grants.count = 0 THEN at ELSE grants.first,
     back |-> grants.back + IF at < bucket.last THEN bucket.last - at ELSE 0]

(* TokenBucket::try_acquire: an empty bucket is left as it is, and the       *)
(* reading becomes the last one even if it is an earlier one.               *)
try_acquire(t) ==
    /\ seen[t] # -1
    /\ \/ /\ refilled(seen[t]) # 0 /\ grants.count < MaxGrants
          /\ bucket' = [tokens |-> refilled(seen[t]) - 1, last |-> seen[t]]
          /\ grants' = Account(seen[t])
       \/ refilled(seen[t]) = 0 /\ UNCHANGED <<bucket, grants>>
    /\ seen' = [seen EXCEPT ![t] = -1]
    /\ UNCHANGED <<clock, issuing>>

-----------------------------------------------------------------------------
(* The budgets                                                              *)

\* mutant of can_issue: the clock may have gone back
can_issue_any_epoch(c, issued_by) ==
    AnchorId[c] = issued_by /\ budget[c].minted_count < MaxPerEpoch

\* mutant of can_issue: any anchor's budget will do
can_issue_any_anchor(c, issued_by) ==
    issuance_epoch(now) >= budget[c].epoch /\ budget[c].minted_count < MaxPerEpoch

(* A budget whose count is used up is refused in a new epoch as well.       *)
can_issue(c, issued_by) ==
    /\ issuance_epoch(now) >= budget[c].epoch
    /\ AnchorId[c] = issued_by
    /\ budget[c].minted_count < MaxPerEpoch

(* charge_issuance                                                          *)
charge_issuance(b) ==
    IF issuance_epoch(now) > b.epoch
    THEN [epoch |-> issuance_epoch(now), minted_count |-> 1]
    ELSE [b EXCEPT !.minted_count = @ + 1]

(* sign_delegation_budgeted, for an enrolled anchor under OperatorSigned     *)
sign_delegation_budgeted(c, issued_by) ==
    /\ issued_by \notin revoked
    /\ can_issue(c, issued_by)
    /\ budget' = [budget EXCEPT ![c] = charge_issuance(@)]
    /\ minted' = [minted EXCEPT ![issued_by][issuance_epoch(now)] = @ + 1]
    /\ UNCHANGED <<clock, accepting, revoked>>

(* The caller re-arms a copy, as the tests do after a change of epoch.      *)
Rearm(c) ==
    /\ issuance_epoch(now) > budget[c].epoch
    /\ budget' = [budget EXCEPT ![c] = charge_issuance(@)]
    /\ UNCHANGED <<clock, accepting, revoked, minted>>

revoke_key(a) ==
    /\ revoked' = revoked \cup {a}
    /\ UNCHANGED <<clock, accepting, budget, minted>>

QuotaNext ==
    \/ Tick
    \/ \E t \in Times : SetClock(t)
    \/ \E t \in Tasks : Arrive(t) \/ try_acquire(t)
    \/ \E c \in Copies : Rearm(c) \/ \E a \in Anchors : sign_delegation_budgeted(c, a)
    \/ \E a \in Anchors : revoke_key(a)

QuotaSpec == QuotaInit /\ [][QuotaNext]_quotaVars

-----------------------------------------------------------------------------
QuotaTypeOK ==
    /\ now \in Times /\ steps \in 0 .. MaxSteps
    /\ seen \in [Tasks -> {-1} \cup Times]
    /\ bucket \in [tokens : 0 .. Capacity, last : {0} \cup Times]
    /\ grants \in [count : Nat, first : {0} \cup Times, back : Nat]
    /\ budget \in [Copies -> [epoch : Epochs, minted_count : Nat]]
    /\ revoked \in SUBSET Anchors
    /\ minted \in [Anchors -> [Epochs -> Nat]]

(* transport_policy.rs:26-28: what the bucket gives out is its capacity and  *)
(* what it has earned between its first and its last grant.  Every second    *)
(* that it was set back, by the clock or because a task came late, is       *)
(* earned once more, and no second is earned but those.                     *)
RateBounded ==
    grants.count > 0 =>
        grants.count + bucket.tokens
            <= Capacity + RefillPerSec * (bucket.last - grants.first + grants.back)

CopiesOf(a) == {c \in Copies : AnchorId[c] = a}

(* node_id.rs:205-220: an anchor mints in no epoch more than its budget       *)
(* allows, times the copies of it that are about: not after it was re-armed,  *)
(* nor with another anchor's budget, nor when the clock comes back to an     *)
(* epoch that was already spent.                                            *)
MintsCapped ==
    \A a \in Anchors, e \in Epochs :
        minted[a][e] <= MaxPerEpoch * Cardinality(CopiesOf(a))
=============================================================================
