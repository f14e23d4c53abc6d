--------------------------- MODULE VerifyChainProofs ---------------------------
(***************************************************************************)
(* The delegation walk for chains of any length over any keys and grants.  *)
(* TLC looks at chains of at most three links; here the loop invariant     *)
(* WalkInv carries the argument from link to link: the grants of the last  *)
(* link passed were granted by every link before it, and every set of keys *)
(* that is closed under the chain's live delegations holds its subject.    *)
(* ChainDecides adds that all links before `at` have passed (Examined), so   *)
(* that the verdict is the one the whole chain deserves.                     *)
(***************************************************************************)
EXTENDS VerifyChain, TLAPS

(* What has been established of the links before `at`.                      *)
Passed ==
    at > 1 =>
        LET last == chain[at - 1] IN
        /\ prev_subject = {last.subject} /\ parent_scope = {last.scope}
        /\ \A i \in 1 .. at - 1 : last.scope \subseteq chain[i].scope
        /\ \A g \in last.scope : Holds(last.subject, g)

Rooted == at >= 1 => chain # <<>> /\ chain[1].issued_by \in roster

Accepted == verdict = "accept" => at = Len(chain) + 1 /\ at > 1 /\ TailVouches

WalkInv ==
    /\ TypeOK
    /\ at <= 1 => prev_subject = {} /\ parent_scope = {}
    /\ Rooted
    /\ Passed
    /\ Accepted

args == <<roster, chain, cap, now>>

LEMMA LinkType ==
  ASSUME TypeOK, NEW i \in 1 .. Len(chain)
  PROVE  /\ chain[i] \in Delegation /\ i \in DOMAIN chain
         /\ chain[i].subject \in Keys /\ chain[i].issued_by \in Keys
         /\ chain[i].scope \in SUBSET Grants
<1>1. chain \in Seq(Delegation)
  BY DEF TypeOK
<1>2. chain[i] \in Delegation /\ i \in DOMAIN chain
  BY <1>1
<1> QED BY <1>2 DEF Delegation

LEMMA InitWalk == Init => WalkInv
<1> SUFFICES ASSUME Init PROVE WalkInv
  OBVIOUS
<1>1. chain \in Seq(Delegation)
  BY ChainsAssumption DEF Init
<1>2. Len(chain) \in Nat
  BY <1>1
<1>3. /\ roster \in SUBSET Keys /\ cap \in Capability /\ now \in Nat
  BY CapsAssumption, RostersAssumption, TicksAssumption DEF Init
<1>4. at \in 0 .. Len(chain) + 1
  BY <1>2 DEF Init
<1>5. TypeOK
  BY <1>1, <1>3, <1>4 DEF Init, TypeOK
<1> QED BY <1>5 DEF Init, WalkInv, Rooted, Passed, Accepted

(* A step of the walk leaves the arguments alone, and so everything that is *)
(* said of them alone.                                                      *)
LEMMA SameArgs ==
  ASSUME args' = args, NEW k, NEW g
  PROVE  Holds(k, g)' <=> Holds(k, g)
  BY DEF args, Holds, Closed, Live

LEMMA RejectKeeps ==
  ASSUME WalkInv, Reject
  PROVE  WalkInv'
<1>1. args' = args /\ at' = at /\ prev_subject' = prev_subject /\ parent_scope' = parent_scope
      /\ verdict' = "reject"
  BY DEF Reject, args
<1>2. roster' = roster /\ chain' = chain /\ cap' = cap /\ now' = now
  BY <1>1 DEF args
<1>3. TypeOK'
  BY <1>1, <1>2 DEF WalkInv, TypeOK
<1>4. Passed'
  BY <1>1, <1>2, SameArgs DEF WalkInv, Passed
<1> QED BY <1>1, <1>2, <1>3, <1>4 DEF WalkInv, Rooted, Accepted

LEMMA CheckRootKeeps ==
  ASSUME WalkInv, CheckRoot
  PROVE  WalkInv'
<1>1. CASE Reject
  BY <1>1, RejectKeeps
<1>2. CASE ~Reject
  <2>1. /\ verdict = "walking" /\ at = 0 /\ RootVouches /\ at' = 1
        /\ roster' = roster /\ chain' = chain /\ cap' = cap /\ now' = now
        /\ prev_subject' = prev_subject /\ parent_scope' = parent_scope
        /\ verdict' = verdict
    BY <1>2 DEF CheckRoot
  <2>2. Len(chain) \in Nat
    BY DEF WalkInv, TypeOK
  <2>3. at' \in 0 .. Len(chain') + 1
    BY <2>1, <2>2
  <2>4. TypeOK'
    BY <2>1, <2>3 DEF WalkInv, TypeOK
  <2> QED BY <2>1, <2>4 DEF WalkInv, RootVouches, Rooted, Passed, Accepted
<1> QED BY <1>1, <1>2

(* The heart of the argument.  Let S be closed under grant g of the link    *)
(* just checked.  If the link is the root, its issuer is an anchor and so   *)
(* in S; otherwise its issuer is the subject of the link before, which had  *)
(* g too, and so is in S by the loop invariant.  The link is live, so its   *)
(* subject is in S as well.                                                 *)
LEMMA LinkHolds ==
  ASSUME WalkInv, at \in 1 .. Len(chain), LinkVouches(chain[at]),
         NEW g \in chain[at].scope
  PROVE  Holds(chain[at].subject, g)
<1> SUFFICES ASSUME NEW S \in SUBSET Keys, Closed(S, g)
             PROVE  chain[at].subject \in S
  BY DEF Holds
<1>1. at \in DOMAIN chain
  BY LinkType DEF WalkInv
<1>2. Live(chain[at])
  BY DEF LinkVouches, Live
<1>3. chain[at].issued_by \in S
  <2>1. CASE at = 1
    BY <2>1 DEF WalkInv, Rooted, Closed
  <2>2. CASE at > 1
    <3>1. /\ prev_subject = {chain[at - 1].subject}
          /\ parent_scope = {chain[at - 1].scope}
          /\ \A h \in chain[at - 1].scope : Holds(chain[at - 1].subject, h)
      BY <2>2 DEF WalkInv, Passed
    <3>2. chain[at].issued_by = chain[at - 1].subject
      BY <3>1 DEF LinkVouches
    <3>3. g \in chain[at - 1].scope
      BY <3>1 DEF LinkVouches
    <3>4. Holds(chain[at - 1].subject, g)
      BY <3>1, <3>3
    <3> QED BY <3>2, <3>4 DEF Holds
  <2> QED BY <2>1, <2>2
<1> QED BY <1>1, <1>2, <1>3 DEF Closed

LEMMA LinkNarrows ==
  ASSUME WalkInv, at \in 1 .. Len(chain), LinkVouches(chain[at]),
         NEW i \in 1 .. at
  PROVE  chain[at].scope \subseteq chain[i].scope
<1>1. CASE i = at
  BY <1>1
<1>2. CASE i < at
  <2>1. at > 1 /\ i \in 1 .. at - 1
    BY <1>2
  <2>2. /\ parent_scope = {chain[at - 1].scope}
        /\ chain[at - 1].scope \subseteq chain[i].scope
    BY <2>1 DEF WalkInv, Passed
  <2> QED BY <2>2 DEF LinkVouches
<1> QED BY <1>1, <1>2

LEMMA CheckLinkKeeps ==
  ASSUME WalkInv, CheckLink
  PROVE  WalkInv'
<1>1. CASE Reject
  BY <1>1, RejectKeeps
<1>2. CASE ~Reject
  <2>1. /\ verdict = "walking" /\ at \in 1 .. Len(chain) /\ LinkVouches(chain[at])
        /\ at' = at + 1
        /\ roster' = roster /\ chain' = chain /\ cap' = cap /\ now' = now
        /\ prev_subject' = {chain[at].subject} /\ parent_scope' = {chain[at].scope}
        /\ verdict' = verdict
    BY <1>2 DEF CheckLink
  <2>2. Len(chain) \in Nat
    BY DEF WalkInv, TypeOK
  <2>3. at' \in 0 .. Len(chain') + 1 /\ at' > 1 /\ at' - 1 = at
    BY <2>1, <2>2
  <2>4. prev_subject' \subseteq Keys /\ parent_scope' \subseteq SUBSET Grants
    BY <2>1, LinkType DEF WalkInv
  <2>5. TypeOK'
    BY <2>1, <2>3, <2>4 DEF WalkInv, TypeOK
  <2>6. \A g \in chain[at].scope, S \in SUBSET Keys :
            Closed(S, g)' => chain[at].subject \in S
    <3> SUFFICES ASSUME NEW g \in chain[at].scope, NEW S \in SUBSET Keys, Closed(S, g)'
                 PROVE  chain[at].subject \in S
      OBVIOUS
    <3>1. Closed(S, g)
      BY <2>1 DEF Closed, Live
    <3> QED BY <2>1, <3>1, LinkHolds DEF Holds
  <2>7. \A i \in 1 .. at : chain[at].scope \subseteq chain[i].scope
    BY <2>1, LinkNarrows
  <2>8. chain'[at' - 1] = chain[at]
    BY <2>1, <2>3
  <2>9. Passed'
    BY <2>1, <2>3, <2>6, <2>7, <2>8 DEF Passed, Holds
  <2> QED BY <2>1, <2>3, <2>5, <2>9 DEF WalkInv, Rooted, Accepted
<1> QED BY <1>1, <1>2

LEMMA CheckTailKeeps ==
  ASSUME WalkInv, CheckTail
  PROVE  WalkInv'
<1>1. CASE Reject
  BY <1>1, RejectKeeps
<1>2. CASE ~Reject
  <2>1. /\ at = Len(chain) + 1 /\ TailVouches /\ verdict' = "accept"
        /\ roster' = roster /\ chain' = chain /\ cap' = cap /\ now' = now /\ at' = at
        /\ prev_subject' = prev_subject /\ parent_scope' = parent_scope
    BY <1>2 DEF CheckTail
  <2>2. Len(chain) \in Nat /\ (chain # <<>> => Len(chain) # 0)
    BY DEF WalkInv, TypeOK
  <2>3. at > 1
    BY <2>1, <2>2 DEF WalkInv, Rooted
  <2>4. TypeOK'
    BY <2>1 DEF WalkInv, TypeOK
  <2>5. Passed'
    BY <2>1 DEF WalkInv, Passed, Holds, Closed, Live
  <2> QED BY <2>1, <2>3, <2>4, <2>5 DEF WalkInv, Rooted, Accepted, TailVouches, is_fresh
<1> QED BY <1>1, <1>2

LEMMA NextWalk == WalkInv /\ [Next]_vars => WalkInv'
<1> SUFFICES ASSUME WalkInv, [Next]_vars PROVE WalkInv'
  OBVIOUS
<1>1. CASE UNCHANGED vars
  BY <1>1 DEF vars, WalkInv, TypeOK, Rooted, Passed, Accepted, Holds, Closed, Live,
              TailVouches, is_fresh
<1>2. CASE Next
  BY <1>2, CheckRootKeeps, CheckLinkKeeps, CheckTailKeeps DEF Next
<1> QED BY <1>1, <1>2

(* What the loop invariant says once the walk has accepted.                 *)
LEMMA AcceptedWalk ==
  ASSUME WalkInv, verdict = "accept"
  PROVE  /\ AcceptedIsAuthorized
         /\ NarrowOnly
<1>1. /\ Len(chain) \in Nat /\ DOMAIN chain = 1 .. Len(chain)
  BY DEF WalkInv, TypeOK
<1>2. at = Len(chain) + 1 /\ at > 1 /\ at - 1 = Len(chain) /\ TailVouches
  BY <1>1 DEF WalkInv, Accepted
<1>3. /\ \A i \in 1 .. Len(chain) : chain[Len(chain)].scope \subseteq chain[i].scope
      /\ \A g \in chain[Len(chain)].scope : Holds(chain[Len(chain)].subject, g)
  BY <1>2 DEF WalkInv, Passed
<1>4. AcceptedIsAuthorized
  BY <1>2, <1>3 DEF AcceptedIsAuthorized, TailVouches
<1>5. NarrowOnly
  BY <1>1, <1>2, <1>3 DEF NarrowOnly, TailVouches
<1> QED BY <1>4, <1>5

(* An accepted capability holds every grant it asks for by a path of live,  *)
(* signed delegations from an anchor, however long the chain is.            *)
THEOREM ChainAuthorizes == Spec => []AcceptedIsAuthorized
<1>1. WalkInv => AcceptedIsAuthorized
  BY AcceptedWalk DEF AcceptedIsAuthorized
<1> QED BY InitWalk, NextWalk, <1>1, PTL DEF Spec

(* No link of an accepted chain grants less than the capability asks for.   *)
THEOREM ChainNarrows == Spec => [](TypeOK /\ NarrowOnly)
<1>1. WalkInv => TypeOK /\ NarrowOnly
  BY AcceptedWalk DEF WalkInv, NarrowOnly
<1> QED BY InitWalk, NextWalk, <1>1, PTL DEF Spec

-----------------------------------------------------------------------------
(* The walk decides: what it accepts is well formed, and so is nothing it   *)
(* refuses.  The links before `at` have been examined one against the one   *)
(* before; Examined says what that amounts to about all pairs of them.      *)

Examined ==
    /\ \A i \in DOMAIN chain :
           i < at => Live(chain[i]) /\ chain[i].effect \subseteq chain[i].scope
    /\ \A i, j \in DOMAIN chain :
           j < at => /\ i + 1 = j => chain[j].issued_by = chain[i].subject
                     /\ i < j => chain[j].scope \subseteq chain[i].scope

Decided ==
    /\ verdict = "accept" => WellFormed
    /\ verdict = "reject" => ~WellFormed

DecideInv == WalkInv /\ Examined /\ Decided

(* Well-formedness is a matter of the arguments alone.                      *)
LEMMA SameWellFormed ==
  ASSUME args' = args
  PROVE  WellFormed' <=> WellFormed
<1>1. roster' = roster /\ chain' = chain /\ cap' = cap /\ now' = now
  BY DEF args
<1> QED BY <1>1 DEF WellFormed, Live, is_fresh

LEMMA RejectDecides ==
  ASSUME DecideInv, Reject, ~WellFormed
  PROVE  Examined' /\ Decided'
<1>1. args' = args /\ at' = at /\ verdict' = "reject" /\ chain' = chain /\ now' = now
  BY DEF Reject, args
<1>2. Examined'
  BY <1>1 DEF DecideInv, Examined, Live
<1> QED BY <1>1, <1>2, SameWellFormed DEF Decided

LEMMA RootDecides ==
  ASSUME DecideInv, CheckRoot
  PROVE  Examined' /\ Decided'
<1>1. CASE RootVouches /\ verdict' = "walking"
  <2>1. at' = 1 /\ chain' = chain /\ now' = now
    BY <1>1 DEF CheckRoot, Reject
  <2>2. \A i \in DOMAIN chain : ~(i < 1)
    BY DEF DecideInv, WalkInv, TypeOK
  <2>3. Examined'
    BY <2>1, <2>2 DEF Examined
  <2> QED BY <1>1, <2>3 DEF Decided
<1>2. CASE ~RootVouches /\ Reject
  BY <1>2, RejectDecides DEF RootVouches, WellFormed
<1> QED BY <1>1, <1>2 DEF CheckRoot

(* A link of a well-formed chain passes against the one before it.          *)
LEMMA WellFormedLinkVouches ==
  ASSUME WalkInv, WellFormed, at \in 1 .. Len(chain)
  PROVE  LinkVouches(chain[at])
<1>1. at \in DOMAIN chain /\ at \in Nat /\ DOMAIN chain = 1 .. Len(chain)
  BY DEF WalkInv, TypeOK
<1>2. Live(chain[at]) /\ chain[at].effect \subseteq chain[at].scope
  BY <1>1 DEF WellFormed
<1>3. CASE at = 1
  BY <1>2, <1>3 DEF WalkInv, LinkVouches, Live
<1>4. CASE at > 1
  <2>1. prev_subject = {chain[at - 1].subject} /\ parent_scope = {chain[at - 1].scope}
    BY <1>4 DEF WalkInv, Passed
  <2>2. at - 1 \in DOMAIN chain /\ (at - 1) + 1 = at /\ at - 1 < at
    BY <1>1, <1>4
  <2>3. /\ chain[at].issued_by = chain[at - 1].subject
        /\ chain[at].scope \subseteq chain[at - 1].scope
    BY <1>1, <2>2 DEF WellFormed
  <2> QED BY <1>2, <2>1, <2>3 DEF LinkVouches, Live
<1> QED BY <1>1, <1>3, <1>4

LEMMA LinkDecides ==
  ASSUME DecideInv, CheckLink
  PROVE  Examined' /\ Decided'
<1>0. WalkInv /\ at \in 1 .. Len(chain)
  BY DEF DecideInv, CheckLink
<1>1. CASE LinkVouches(chain[at]) /\ ~Reject
  <2>1. at' = at + 1 /\ chain' = chain /\ now' = now /\ verdict' = "walking"
    BY <1>1 DEF CheckLink
  <2>2. /\ \A i \in DOMAIN chain : i \in Nat
        /\ at \in Nat /\ DOMAIN chain = 1 .. Len(chain)
    BY <1>0 DEF WalkInv, TypeOK
  <2>3. Live(chain[at]) /\ chain[at].effect \subseteq chain[at].scope
    BY <1>1 DEF LinkVouches, Live
  <2>4. ASSUME NEW i \in DOMAIN chain, i + 1 = at
        PROVE  chain[at].issued_by = chain[i].subject
    <3>1. at > 1 /\ i = at - 1
      BY <2>2, <2>4
    <3>2. prev_subject = {chain[i].subject}
      BY <1>0, <3>1 DEF WalkInv, Passed
    <3> QED BY <1>1, <3>2 DEF LinkVouches
  <2>5. ASSUME NEW i \in DOMAIN chain, i < at
        PROVE  chain[at].scope \subseteq chain[i].scope
    BY <1>0, <1>1, <2>2, <2>5, LinkNarrows
  <2>6. \A j \in DOMAIN chain : j < at + 1 => j < at \/ j = at
    BY <2>2
  <2>7. Examined'
    BY <2>1, <2>3, <2>4, <2>5, <2>6 DEF DecideInv, Examined, Live
  <2> QED BY <2>1, <2>7 DEF Decided
<1>2. CASE ~LinkVouches(chain[at]) /\ Reject
  BY <1>0, <1>2, WellFormedLinkVouches, RejectDecides
<1>3. LinkVouches(chain[at]) => ~Reject
  BY <1>0 DEF CheckLink, Reject
<1> QED BY <1>1, <1>2, <1>3 DEF CheckLink

LEMMA TailDecides ==
  ASSUME DecideInv, CheckTail
  PROVE  Examined' /\ Decided'
<1>1. CASE TailVouches /\ verdict' = "accept"
  <2>1. at = Len(chain) + 1 /\ at' = at /\ args' = args /\ chain' = chain /\ now' = now
    BY <1>1 DEF CheckTail, Reject, args
  <2>2. Examined'
    BY <2>1 DEF DecideInv, Examined, Live
  <2>3. /\ \A i \in DOMAIN chain : i < at
        /\ at >= 1
    BY <2>1 DEF DecideInv, WalkInv, TypeOK
  <2>4. RootVouches
    BY <2>3 DEF DecideInv, WalkInv, Rooted, RootVouches
  <2>5. WellFormed
    BY <1>1, <2>3, <2>4 DEF DecideInv, Examined, WellFormed, RootVouches, TailVouches
  <2> QED BY <1>1, <2>1, <2>2, <2>5, SameWellFormed DEF Decided
<1>2. CASE ~TailVouches /\ Reject
  BY <1>2, RejectDecides DEF TailVouches, WellFormed
<1> QED BY <1>1, <1>2 DEF CheckTail

(* The safety half of AcceptsWellFormed, in both directions: for chains of  *)
(* any length verify_chain accepts only well-formed ones, and refuses only   *)
(* chains that are not.  The checks of one link at a time, each against its  *)
(* predecessor and with an early return, amount to the conditions that the   *)
(* chain is to meet as a whole.                                              *)
THEOREM ChainDecides ==
  Spec => [](/\ verdict = "accept" => WellFormed
             /\ verdict = "reject" => ~WellFormed)
<1>1. Init => DecideInv
  <2> SUFFICES ASSUME Init PROVE DecideInv
    OBVIOUS
  <2>1. WalkInv
    BY InitWalk
  <2>2. \A i \in DOMAIN chain : i \in Nat /\ ~(i < 0)
    BY <2>1 DEF WalkInv, TypeOK
  <2>3. Examined
    BY <2>2 DEF Init, Examined
  <2> QED BY <2>1, <2>3 DEF Init, DecideInv, Decided
<1>2. DecideInv /\ [Next]_vars => DecideInv'
  <2> SUFFICES ASSUME DecideInv, [Next]_vars PROVE DecideInv'
    OBVIOUS
  <2>1. WalkInv'
    BY NextWalk DEF DecideInv
  <2>2. CASE UNCHANGED vars
    <3>1. args' = args /\ chain' = chain /\ now' = now /\ at' = at /\ verdict' = verdict
      BY <2>2 DEF vars, args
    <3>2. Examined'
      BY <3>1 DEF DecideInv, Examined, Live
    <3> QED BY <2>1, <3>1, <3>2, SameWellFormed DEF DecideInv, Decided
  <2>3. CASE Next
    BY <2>1, <2>3, RootDecides, LinkDecides, TailDecides DEF Next, DecideInv
  <2> QED BY <2>2, <2>3
<1>3. DecideInv => /\ verdict = "accept" => WellFormed
                   /\ verdict = "reject" => ~WellFormed
  BY DEF DecideInv, Decided
<1> QED BY <1>1, <1>2, <1>3, PTL DEF Spec
=============================================================================
