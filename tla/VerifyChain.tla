------------------------------ MODULE VerifyChain ------------------------------
(***************************************************************************)
(* verify_chain of bebop2/proto-cap/src/roster.rs: does a chain of signed  *)
(* delegations carry authority from an enrolled anchor to the subject of a *)
(* capability?  The loop over the links is kept as a loop, one link per    *)
(* step, with the two variables the code carries from link to link.        *)
(*                                                                         *)
(* What the answer should mean is said without chains: Holds(k, g) is the  *)
(* least set of keys that contains the anchors and follows every live,     *)
(* signed delegation of grant g.                                           *)
(***************************************************************************)
EXTENDS Naturals, Sequences

CONSTANTS
    Keys,         \* Ed25519 public keys
    Grants,       \* (resource, action) pairs
    Rosters,      \* enrolled anchor sets to consider
    Chains,       \* delegation chains to consider
    Caps,         \* capabilities to consider
    Ticks         \* values of the verifier's clock

(* signed: the link's signature verifies under issued_by over its fields.   *)
Delegation == [issued_by : Keys, subject : Keys, scope : SUBSET Grants,
               effect : SUBSET Grants, expiry : Nat, signed : BOOLEAN]

Capability == [subject : Keys, scope : SUBSET Grants, expiry : Nat]

ASSUME ChainsAssumption == Chains \subseteq Seq(Delegation)
ASSUME CapsAssumption == Caps \subseteq Capability
ASSUME RostersAssumption == Rosters \subseteq SUBSET Keys
ASSUME TicksAssumption == Ticks \subseteq Nat

VARIABLES
    roster, chain, cap, now,   \* the arguments
    at,                        \* index of the link under examination
    prev_subject,              \* Option: {} or {subject of the link before}
    parent_scope,              \* Option: {} or {scope of the link before}
    verdict                    \* "walking", "accept" or "reject"

vars == <<roster, chain, cap, now, at, prev_subject, parent_scope, verdict>>

is_fresh(c) == c.expiry > now

Init ==
    /\ roster \in Rosters /\ chain \in Chains /\ cap \in Caps /\ now \in Ticks
    /\ at = 0
    /\ prev_subject = {} /\ parent_scope = {}
    /\ verdict = "walking"

Reject ==
    /\ verdict' = "reject"
    /\ UNCHANGED <<roster, chain, cap, now, at, prev_subject, parent_scope>>

(* (a) the chain has a root and its issuer is an enrolled anchor.           *)
RootVouches == chain # <<>> /\ chain[1].issued_by \in roster

CheckRoot ==
    /\ verdict = "walking" /\ at = 0
    /\ \/ /\ RootVouches
          /\ at' = 1
          /\ UNCHANGED <<roster, chain, cap, now, prev_subject, parent_scope, verdict>>
       \/ /\ ~RootVouches
          /\ Reject

\* mutant of LinkVouches: a link may name any issuer
LinkUnaligned(link) ==
    /\ link.expiry > now
    /\ link.signed
    /\ link.effect \subseteq link.scope
    /\ \A scope \in parent_scope : link.scope \subseteq scope

\* mutant of LinkVouches: an equal or wider scope than the parent's passes
LinkWidening(link) ==
    /\ link.expiry > now
    /\ link.signed
    /\ link.effect \subseteq link.scope
    /\ \A subject \in prev_subject : link.issued_by = subject

\* mutant of LinkVouches: a link whose effect is narrower than its scope is refused
LinkExactEffect(link) ==
    /\ link.expiry > now
    /\ link.signed
    /\ link.effect = link.scope
    /\ \A subject \in prev_subject : link.issued_by = subject
    /\ \A scope \in parent_scope : link.scope \subseteq scope

(* (g), (f), (c), (b), (c): one link against the one before it.             *)
LinkVouches(link) ==
    /\ link.expiry > now
    /\ link.signed
    /\ link.effect \subseteq link.scope
    /\ \A subject \in prev_subject : link.issued_by = subject
    /\ \A scope \in parent_scope : link.scope \subseteq scope

CheckLink ==
    /\ verdict = "walking" /\ at \in 1 .. Len(chain)
    /\ \/ /\ LinkVouches(chain[at])
          /\ at' = at + 1
          /\ prev_subject' = {chain[at].subject}
          /\ parent_scope' = {chain[at].scope}
          /\ UNCHANGED <<roster, chain, cap, now, verdict>>
       \/ /\ ~LinkVouches(chain[at])
          /\ Reject

(* (d), (e), (g): the last link binds the capability.                       *)
TailVouches ==
    /\ chain[Len(chain)].subject = cap.subject
    /\ cap.scope \subseteq chain[Len(chain)].scope
    /\ is_fresh(cap)

CheckTail ==
    /\ verdict = "walking" /\ at = Len(chain) + 1
    /\ \/ /\ TailVouches
          /\ verdict' = "accept"
          /\ UNCHANGED <<roster, chain, cap, now, at, prev_subject, parent_scope>>
       \/ /\ ~TailVouches
          /\ Reject

Next == CheckRoot \/ CheckLink \/ CheckTail

Spec == Init /\ [][Next]_vars /\ WF_vars(Next)

-----------------------------------------------------------------------------
TypeOK ==
    /\ roster \in SUBSET Keys /\ chain \in Seq(Delegation)
    /\ cap \in Capability /\ now \in Nat
    /\ at \in 0 .. Len(chain) + 1
    /\ prev_subject \subseteq Keys
    /\ parent_scope \subseteq SUBSET Grants
    /\ verdict \in {"walking", "accept", "reject"}

Live(link) == link.signed /\ link.expiry > now

(* S contains the anchors and every key that a live link of the chain hands *)
(* grant g to from a key in S.                                              *)
Closed(S, g) ==
    /\ roster \subseteq S
    /\ \A i \in DOMAIN chain :
           Live(chain[i]) /\ g \in chain[i].scope /\ chain[i].issued_by \in S
               => chain[i].subject \in S

Holds(k, g) == \A S \in SUBSET Keys : Closed(S, g) => k \in S

(* roster.rs:236-247: an accepted capability holds every grant it asks for  *)
(* by way of live, signed delegations from an enrolled anchor: a chain      *)
(* never conjures authority, whatever its length and whoever issued it.     *)
AcceptedIsAuthorized ==
    verdict = "accept" => is_fresh(cap) /\ \A g \in cap.scope : Holds(cap.subject, g)

(* roster.rs:241-242: attenuation is narrow-only all the way from the root: *)
(* no accepted capability asks for more than any link of its chain granted. *)
NarrowOnly ==
    verdict = "accept" => \A i \in DOMAIN chain : cap.scope \subseteq chain[i].scope

(* A chain in the sense of the doc comment, said about all pairs of links.  *)
WellFormed ==
    /\ chain # <<>> /\ chain[1].issued_by \in roster
    /\ \A i \in DOMAIN chain : Live(chain[i]) /\ chain[i].effect \subseteq chain[i].scope
    /\ \A i, j \in DOMAIN chain :
           /\ i + 1 = j => chain[j].issued_by = chain[i].subject
           /\ i < j => chain[j].scope \subseteq chain[i].scope
    /\ chain[Len(chain)].subject = cap.subject
    /\ cap.scope \subseteq chain[Len(chain)].scope
    /\ is_fresh(cap)

(* The gate refuses only what one of (a) to (g) refuses: the walk comes to  *)
(* an end for every chain, and with every well-formed one it is acceptance. *)
AcceptsWellFormed == WellFormed ~> verdict = "accept"
=============================================================================
