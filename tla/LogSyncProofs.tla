----------------------------- MODULE LogSyncProofs -----------------------------
(***************************************************************************)
(* The event log that is pulled and kept on disk, for any nodes, links,     *)
(* interleavings, crashes and lost transfers.                              *)
(*                                                                         *)
(* OneHistory: not only the logs but all that a log may come from, the      *)
(* files and the transfers under way, must hold parts of the master chain,  *)
(* each entry with its own number.                                         *)
(*                                                                         *)
(* SavedSurvives and RestoresOwnPast need to know what stands in a file     *)
(* while it is written: no more than the log has, and in its order.         *)
(*                                                                         *)
(* PullOutcome and PullCatchesUp are about diff and apply_pull alone: what   *)
(* one undisturbed pull makes of two logs.                                  *)
(***************************************************************************)
EXTENDS LogSync, SequenceTheorems, WellFoundedInduction, TLAPS

-----------------------------------------------------------------------------
(* Sequences                                                                *)

LEMMA SubSeqOf ==
  ASSUME NEW S, NEW s \in Seq(S), NEW a \in Nat \ {0}, NEW b \in 0 .. Len(s)
  PROVE  /\ SubSeq(s, a, b) \in Seq(S)
         /\ Len(SubSeq(s, a, b)) = IF a <= b THEN b - a + 1 ELSE 0
         /\ \A i \in 1 .. Len(SubSeq(s, a, b)) : SubSeq(s, a, b)[i] = s[a + i - 1]
  OBVIOUS

LEMMA ConcatOf ==
  ASSUME NEW S, NEW s \in Seq(S), NEW t \in Seq(S)
  PROVE  /\ s \o t \in Seq(S)
         /\ Len(s \o t) = Len(s) + Len(t)
         /\ \A i \in 1 .. Len(s) : (s \o t)[i] = s[i]
         /\ \A i \in Len(s) + 1 .. Len(s) + Len(t) : (s \o t)[i] = t[i - Len(s)]
  OBVIOUS

LEMMA PrefixRefl == \A s \in Entries : IsPrefixOf(s, s)
  BY DEF Entries, IsPrefixOf

LEMMA PrefixTrans ==
  \A s, t, u \in Entries : IsPrefixOf(s, t) /\ IsPrefixOf(t, u) => IsPrefixOf(s, u)
  BY DEF Entries, IsPrefixOf

(* What a write that has come to record k leaves in the file.               *)
LEMMA OverwrittenIs ==
  ASSUME TypeOK, NEW n \in Nodes, NEW k \in 0 .. Len(log[n])
  PROVE  LET w == Overwritten(n, k) f == file[n].recs IN
         /\ w \in Entries
         /\ Len(f) <= k => Len(w) = k
         /\ \A i \in 1 .. Len(w) : (i <= k /\ w[i] = log[n][i]) \/ (k < i /\ i \in 1 .. Len(f) /\ w[i] = f[i])
<1> DEFINE s == SubSeq(log[n], 1, k)
           f == file[n].recs
           t == SubSeq(f, k + 1, Len(f))
           w == Overwritten(n, k)
<1>1. log[n] \in Seq(Nat) /\ f \in Seq(Nat)
  BY DEF TypeOK, FileType, Entries
<1>2. k \in Nat /\ k <= Len(log[n]) /\ Len(f) \in Nat
  BY <1>1
<1>3. /\ s \in Seq(Nat) /\ Len(s) = k
      /\ \A i \in 1 .. k : s[i] = log[n][i]
  BY <1>1, <1>2, SubSeqOf
<1>4. /\ t \in Seq(Nat)
      /\ Len(t) = IF k + 1 <= Len(f) THEN Len(f) - (k + 1) + 1 ELSE 0
      /\ \A i \in 1 .. Len(t) : t[i] = f[k + 1 + i - 1]
  BY <1>1, <1>2, SubSeqOf
<1>5. w = s \o t
  BY DEF Overwritten
<1> HIDE DEF s, t, w
<1>a. /\ w \in Seq(Nat) /\ Len(w) = Len(s) + Len(t)
      /\ \A i \in 1 .. Len(s) : w[i] = s[i]
      /\ \A i \in Len(s) + 1 .. Len(s) + Len(t) : w[i] = t[i - Len(s)]
  <2>1. s \in Seq(Nat) /\ t \in Seq(Nat)
    BY <1>3, <1>4
  <2> QED BY <2>1, <1>5, ConcatOf
<1>6. /\ w \in Seq(Nat) /\ Len(w) = k + Len(t)
      /\ \A i \in 1 .. k : w[i] = s[i]
      /\ \A i \in k + 1 .. k + Len(t) : w[i] = t[i - k]
  BY <1>3, <1>a
<1>7. Len(f) <= k => Len(w) = k
  BY <1>2, <1>4, <1>6
<1>8. ASSUME NEW i \in 1 .. Len(w)
      PROVE  (i <= k /\ w[i] = log[n][i]) \/ (k < i /\ i \in 1 .. Len(f) /\ w[i] = f[i])
  <2>1. CASE i <= k
    BY <1>2, <1>3, <1>6, <2>1
  <2>2. CASE i > k
    <3>1. i \in k + 1 .. k + Len(t) /\ i - k \in 1 .. Len(t) /\ k + 1 <= Len(f)
      BY <1>2, <1>4, <1>6, <2>2
    <3>2. w[i] = t[i - k] /\ t[i - k] = f[k + 1 + (i - k) - 1]
      BY <1>4, <1>6, <3>1
    <3>3. k + 1 + (i - k) - 1 = i /\ k < i /\ i \in 1 .. Len(f)
      BY <1>2, <1>4, <3>1
    <3> QED BY <3>2, <3>3
  <2> QED BY <1>2, <2>1, <2>2
<1> QED BY <1>6, <1>7, <1>8 DEF Entries, w

-----------------------------------------------------------------------------
(* Types                                                                    *)

LEMMA DiffType ==
  ASSUME NEW local \in Entries, NEW remote \in Entries, NEW from \in diff(local, remote)
  PROVE  from \in Nat
  BY DEF diff, Entries

LEMMA AppliedIs ==
  ASSUME NEW s \in Entries, NEW from \in Nat, NEW t \in Entries
  PROVE  /\ apply_pull(s, from, t) \in Entries
         /\ IsPrefixOf(s, apply_pull(s, from, t))
<1>1. s \in Seq(Nat) /\ t \in Seq(Nat) /\ Len(s) \in Nat /\ Len(t) \in Nat
  BY DEF Entries
<1>2. s \o t \in Entries /\ IsPrefixOf(s, s \o t)
  BY <1>1, ConcatOf DEF Entries, IsPrefixOf
<1> QED BY <1>2, PrefixRefl DEF apply_pull

LEMMA ReplayIs ==
  ASSUME NEW s \in Entries, NEW from \in Nat
  PROVE  /\ replay(s, from) \in Entries
         /\ \A i \in DOMAIN replay(s, from) : from + i \in DOMAIN s /\ replay(s, from)[i] = s[from + i]
<1> DEFINE t == SubSeq(s, from + 1, Len(s))
<1>1. s \in Seq(Nat) /\ Len(s) \in Nat /\ from + 1 \in Nat \ {0} /\ Len(s) \in 0 .. Len(s)
  BY DEF Entries
<1>2. /\ t \in Seq(Nat)
      /\ Len(t) = IF from + 1 <= Len(s) THEN Len(s) - (from + 1) + 1 ELSE 0
      /\ \A i \in 1 .. Len(t) : t[i] = s[from + 1 + i - 1]
  BY <1>1, SubSeqOf
<1> HIDE DEF t
<1>3. \A i \in 1 .. Len(t) : from + 1 + i - 1 = from + i /\ from + i \in 1 .. Len(s)
  BY <1>1, <1>2
<1>4. DOMAIN t = 1 .. Len(t) /\ DOMAIN s = 1 .. Len(s)
  BY <1>1, <1>2
<1> QED BY <1>2, <1>3, <1>4 DEF replay, t, Entries

LEMMA UnsavedType == Unsaved \in FileType /\ Empty \in Entries
  BY DEF Unsaved, FileType, Empty, Entries

LEMMA InitTypes == Init => TypeOK
<1> SUFFICES ASSUME Init PROVE TypeOK
  OBVIOUS
<1>1. /\ up \in [Nodes -> BOOLEAN] /\ writing \in [Nodes -> BOOLEAN]
      /\ authored \in Nat /\ forked \in BOOLEAN
  BY DEF Init
<1>2. /\ log \in [Nodes -> Entries]
      /\ file \in [Nodes -> FileType] /\ saved \in [Nodes -> FileType]
  BY UnsavedType DEF Init
<1>3. pull \in [Links -> Pulls]
  BY DEF Init, Pulls
<1> QED BY <1>1, <1>2, <1>3 DEF TypeOK

LEMMA NextTypes == TypeOK /\ [Next]_vars => TypeOK'
<1> SUFFICES ASSUME TypeOK, [Next]_vars PROVE TypeOK'
  OBVIOUS
<1> USE DEF vars, logs, disk, author
<1>1. CASE append
  <2>1. authored' \in Nat /\ forked' \in BOOLEAN
    BY <1>1 DEF append, TypeOK
  <2>2. Append(log[Writer], authored') \in Entries
    BY <2>1, LogAssumption DEF TypeOK, Entries
  <2> QED BY <1>1, <2>1, <2>2 DEF append, TypeOK
<1>2. ASSUME NEW l \in Links, Pull(l) \/ Lose(l) PROVE TypeOK'
  <2>1. l[1] \in Nodes /\ l[2] \in Nodes /\ pull[l] \in Pulls
    BY LogAssumption DEF TypeOK
  <2>2. CASE Plan(l)
    <3>1. PICK from \in diff(log[l[1]], log[l[2]]) :
              pull' = [pull EXCEPT ![l] = [at |-> "planned", from |-> from]]
      BY <2>2 DEF Plan
    <3>2. from \in Nat
      BY <2>1, DiffType DEF TypeOK
    <3> QED BY <2>2, <3>1, <3>2 DEF Plan, TypeOK, Pulls
  <2>3. CASE Ship(l)
    <3>1. pull[l].from \in Nat
      BY <2>1, <2>3 DEF Ship, Pulls, Idle
    <3>2. replay(log[l[2]], pull[l].from) \in Entries
      BY <2>1, <3>1, ReplayIs DEF TypeOK
    <3> QED BY <2>3, <3>1, <3>2 DEF Ship, TypeOK, Pulls
  <2>4. CASE Apply(l)
    <3>1. pull[l].from \in Nat /\ pull[l].missing \in Entries
      BY <2>1, <2>4 DEF Apply, Pulls, Idle
    <3>2. apply_pull(log[l[1]], pull[l].from, pull[l].missing) \in Entries
      BY <2>1, <3>1, AppliedIs DEF TypeOK
    <3> QED BY <2>1, <2>4, <3>2 DEF Apply, TypeOK, Pulls
  <2>5. CASE Lose(l)
    BY <2>5 DEF Lose, TypeOK, Pulls
  <2> QED BY <1>2, <2>2, <2>3, <2>4, <2>5 DEF Pull
<1>3. ASSUME NEW n \in Nodes, PersistStart(n) PROVE TypeOK'
  BY <1>3, UnsavedType DEF PersistStart, Truncated, TypeOK, FileType
<1>4. ASSUME NEW n \in Nodes, NEW k \in 0 .. MaxEvents, NEW torn \in BOOLEAN, PersistSpill(n, k, torn)
      PROVE  TypeOK'
  <2>1. k \in 0 .. Len(log[n])
    BY <1>4, LogAssumption DEF PersistSpill, TypeOK, Entries
  <2>2. Overwritten(n, k) \in Entries
    BY <2>1, OverwrittenIs
  <2> QED BY <1>4, <2>2 DEF PersistSpill, TypeOK, FileType
<1>5. ASSUME NEW n \in Nodes, PersistEnd(n) PROVE TypeOK'
  <2>1. Len(log[n]) \in 0 .. Len(log[n])
    BY DEF TypeOK, Entries
  <2>2. Overwritten(n, Len(log[n])) \in Entries
    BY <2>1, OverwrittenIs
  <2> QED BY <1>5, <2>2 DEF PersistEnd, TypeOK, FileType
<1>6. ASSUME NEW n \in Nodes, Crash(n) PROVE TypeOK'
  <2>1. pull' \in [Links -> Pulls]
    BY <1>6 DEF Crash, TypeOK, Pulls
  <2> QED BY <1>6, <2>1 DEF Crash, TypeOK
<1>7. ASSUME NEW n \in Nodes, Start(n) PROVE TypeOK'
  BY <1>7, UnsavedType DEF Start, Restore, StartEmpty, TypeOK, FileType
<1>8. CASE UNCHANGED vars
  BY <1>8 DEF TypeOK
<1> QED BY <1>1, <1>2, <1>3, <1>4, <1>5, <1>6, <1>7, <1>8 DEF Next

(* The logs, their files and the pulls between them keep their types: in     *)
(* particular a pull never starts from a number below zero.                 *)
THEOREM LogTyped == Spec => []TypeOK
  BY InitTypes, NextTypes, PTL DEF Spec

-----------------------------------------------------------------------------
(* One history                                                              *)

Numbered(s) == \A i \in DOMAIN s : s[i] = i /\ i <= authored

OnItsWay(p) ==
    p.at = "shipped" =>
        \A i \in DOMAIN p.missing : p.missing[i] = p.from + i /\ p.from + i <= authored

Mastered ==
    /\ \A n \in Nodes : Numbered(log[n]) /\ Numbered(file[n].recs)
    /\ \A l \in Links : OnItsWay(pull[l])

HistoryInv == TypeOK /\ (~forked => Mastered)

LEMMA InitHistory == Init => HistoryInv
<1> SUFFICES ASSUME Init PROVE HistoryInv
  OBVIOUS
<1>1. TypeOK
  BY InitTypes
<1>2. Numbered(Empty)
  BY DEF Numbered, Empty
<1>3. OnItsWay(Idle)
  BY DEF OnItsWay, Idle
<1> QED BY <1>1, <1>2, <1>3 DEF Init, HistoryInv, Mastered, Unsaved

LEMMA NumberedMore ==
  ASSUME TypeOK, authored' \in Nat, authored <= authored'
  PROVE  /\ \A s \in Entries : Numbered(s) => Numbered(s)'
         /\ \A p \in Pulls : OnItsWay(p) => OnItsWay(p)'
<1>1. authored \in Nat
  BY DEF TypeOK
<1>2. \A s \in Entries : \A i \in DOMAIN s : i \in Nat
  BY DEF Entries
<1>3. ASSUME NEW p \in Pulls, p.at = "shipped"
      PROVE  p.from \in Nat /\ p.missing \in Entries
  BY <1>3 DEF Pulls, Idle
<1>4. \A s \in Entries : Numbered(s) => Numbered(s)'
  BY <1>1, <1>2 DEF Numbered
<1>5. ASSUME NEW p \in Pulls, OnItsWay(p) PROVE OnItsWay(p)'
  <2> SUFFICES ASSUME p.at = "shipped", NEW i \in DOMAIN p.missing
               PROVE  p.missing[i] = p.from + i /\ p.from + i <= authored'
    BY DEF OnItsWay
  <2>1. p.from + i \in Nat
    BY <1>2, <1>3
  <2> QED BY <1>1, <1>5, <2>1 DEF OnItsWay
<1> QED BY <1>4, <1>5

LEMMA AppendKeepsHistory ==
  ASSUME HistoryInv, append, ~forked'
  PROVE  Mastered'
<1> DEFINE s == log[Writer]
           t == Append(s, authored')
<1>a. ~forked /\ ~(Len(s) < authored)
  <2>1. forked' = (forked \/ Len(s) < authored)
    BY DEF append
  <2> QED BY <2>1, Zenon
<1>b. TypeOK /\ Mastered
  BY <1>a DEF HistoryInv
<1>1. /\ Mastered /\ TypeOK /\ authored' = authored + 1
      /\ log' = [log EXCEPT ![Writer] = t] /\ UNCHANGED <<file, pull>>
  BY <1>b DEF append, disk
<1>2. authored \in Nat /\ authored' \in Nat /\ authored <= authored' /\ s \in Entries /\ Numbered(s)
  BY <1>1, LogAssumption DEF TypeOK, Mastered
<1>3. Len(s) = authored
  <2>1. Len(s) \in Nat /\ DOMAIN s = 1 .. Len(s) /\ Len(s) >= authored
    BY <1>a, <1>2 DEF Entries
  <2>2. Len(s) # 0 => Len(s) \in DOMAIN s
    BY <2>1
  <2>3. Len(s) # 0 => Len(s) <= authored
    BY <1>2, <2>2 DEF Numbered
  <2> QED BY <1>2, <2>1, <2>3
<1>4. /\ DOMAIN t = 1 .. authored + 1 /\ DOMAIN s = 1 .. authored
      /\ t[authored + 1] = authored'
      /\ \A i \in 1 .. authored : t[i] = s[i]
  BY <1>1, <1>2, <1>3 DEF Entries
<1> HIDE DEF t
<1>5. \A i \in DOMAIN t : t[i] = i /\ i <= authored'
  BY <1>1, <1>2, <1>4 DEF Numbered
<1>6. /\ \A n \in Nodes : log[n] \in Entries /\ file[n].recs \in Entries
      /\ \A l \in Links : pull[l] \in Pulls
  BY <1>1 DEF TypeOK, FileType
<1>7. \A n \in Nodes : Numbered(log[n])' /\ Numbered(file[n].recs)'
  <2> SUFFICES ASSUME NEW n \in Nodes PROVE Numbered(log[n])' /\ Numbered(file[n].recs)'
    OBVIOUS
  <2>1. \A i \in DOMAIN file[n].recs : file[n].recs[i] = i /\ i <= authored'
    BY <1>1, <1>2, <1>6, NumberedMore DEF Numbered, Mastered
  <2>2. \A i \in DOMAIN log'[n] : log'[n][i] = i /\ i <= authored'
    <3>1. CASE n = Writer
      BY <1>1, <1>5, <3>1 DEF TypeOK
    <3>2. CASE n # Writer
      <4>1. log'[n] = log[n]
        BY <1>1, <3>2 DEF TypeOK
      <4> QED BY <4>1, <1>1, <1>2, <1>6, NumberedMore DEF Numbered, Mastered
    <3> QED BY <3>1, <3>2
  <2> QED BY <1>1, <2>1, <2>2 DEF Numbered
<1>8. \A l \in Links : OnItsWay(pull[l])'
  <2> SUFFICES ASSUME NEW p \in Pulls, OnItsWay(p) PROVE OnItsWay(p)'
    BY <1>1, <1>6 DEF Mastered, OnItsWay
  <2> QED BY <1>1, <1>2, NumberedMore
<1> QED BY <1>7, <1>8 DEF Mastered

LEMMA NumberedConcat ==
  ASSUME NEW s \in Entries, NEW t \in Entries, Numbered(s),
         \A i \in DOMAIN t : t[i] = Len(s) + i /\ Len(s) + i <= authored
  PROVE  Numbered(s \o t)
<1> DEFINE u == s \o t
<1>1. /\ u \in Seq(Nat) /\ Len(u) = Len(s) + Len(t)
      /\ \A i \in 1 .. Len(s) : u[i] = s[i]
      /\ \A i \in Len(s) + 1 .. Len(s) + Len(t) : u[i] = t[i - Len(s)]
  BY ConcatOf DEF Entries
<1>2. /\ DOMAIN u = 1 .. Len(u) /\ DOMAIN s = 1 .. Len(s) /\ DOMAIN t = 1 .. Len(t)
      /\ Len(s) \in Nat /\ Len(t) \in Nat
  BY <1>1 DEF Entries
<1> HIDE DEF u
<1>3. ASSUME NEW i \in 1 .. Len(s) PROVE u[i] = i /\ i <= authored
  BY <1>1, <1>2 DEF Numbered
<1>4. ASSUME NEW i \in Len(s) + 1 .. Len(s) + Len(t) PROVE u[i] = i /\ i <= authored
  <2>1. i - Len(s) \in 1 .. Len(t) /\ Len(s) + (i - Len(s)) = i
    BY <1>2
  <2> QED BY <1>1, <1>2, <2>1
<1>5. \A i \in 1 .. Len(u) : i \in 1 .. Len(s) \/ i \in Len(s) + 1 .. Len(s) + Len(t)
  BY <1>1, <1>2
<1> QED BY <1>2, <1>3, <1>4, <1>5 DEF Numbered, u

LEMMA PullKeepsHistory ==
  ASSUME HistoryInv, NEW l \in Links, Pull(l) \/ Lose(l), ~forked'
  PROVE  Mastered'
<1>1. /\ l[1] \in Nodes /\ l[2] \in Nodes /\ pull[l] \in Pulls
      /\ TypeOK /\ Mastered /\ UNCHANGED <<file, authored>>
  BY LogAssumption DEF HistoryInv, TypeOK, Pull, Plan, Ship, Apply, Lose, disk, author
<1>2. ASSUME NEW p \in Pulls, pull' = [pull EXCEPT ![l] = p], log' = log, OnItsWay(p)
      PROVE  Mastered'
  <2>1. \A k \in Links : OnItsWay(pull'[k])
    BY <1>1, <1>2 DEF Mastered, TypeOK
  <2> QED BY <1>1, <1>2, <2>1 DEF Mastered, Numbered, OnItsWay
<1>3. CASE Plan(l)
  <2>1. PICK from \in diff(log[l[1]], log[l[2]]) :
            pull' = [pull EXCEPT ![l] = [at |-> "planned", from |-> from]]
    BY <1>3 DEF Plan
  <2>2. from \in Nat
    BY <1>1, DiffType DEF TypeOK
  <2>3. [at |-> "planned", from |-> from] \in Pulls /\ log' = log
    BY <1>3, <2>2 DEF Plan, Pulls, logs
  <2> QED BY <1>2, <2>1, <2>3 DEF OnItsWay
<1>4. CASE Ship(l)
  <2> DEFINE s == log[l[2]]
             from == pull[l].from
             p == [at |-> "shipped", from |-> from, missing |-> replay(s, from)]
  <2>1. from \in Nat /\ s \in Entries /\ Numbered(s)
    BY <1>1, <1>4 DEF Ship, Pulls, Idle, TypeOK, Mastered
  <2>2. /\ replay(s, from) \in Entries
        /\ \A i \in DOMAIN replay(s, from) : from + i \in DOMAIN s /\ replay(s, from)[i] = s[from + i]
    BY <2>1, ReplayIs
  <2>3. OnItsWay(p)
    BY <2>1, <2>2 DEF OnItsWay, Numbered
  <2>4. p \in Pulls
    BY <2>1, <2>2 DEF Pulls
  <2>5. pull' = [pull EXCEPT ![l] = p] /\ log' = log
    BY <1>4 DEF Ship, logs
  <2> HIDE DEF p
  <2> QED BY <1>2, <2>3, <2>4, <2>5
<1>5. CASE Apply(l)
  <2> DEFINE r == l[1]
             s == log[r]
             from == pull[l].from
             t == pull[l].missing
             u == apply_pull(s, from, t)
  <2>1. /\ from \in Nat /\ s \in Entries /\ t \in Entries /\ Numbered(s)
        /\ \A i \in DOMAIN t : t[i] = from + i /\ from + i <= authored
    BY <1>1, <1>5 DEF Apply, Pulls, Idle, TypeOK, Mastered, OnItsWay
  <2>2. Numbered(u)
    <3>1. CASE from # Len(s)
      BY <2>1, <3>1 DEF apply_pull
    <3>2. CASE from = Len(s)
      BY <2>1, <3>2, NumberedConcat DEF apply_pull
    <3> QED BY <3>1, <3>2
  <2>3. log' = [log EXCEPT ![r] = u] /\ pull' = [pull EXCEPT ![l] = Idle]
    BY <1>5 DEF Apply
  <2> HIDE DEF u
  <2>4. \A n \in Nodes : Numbered(log'[n])
    BY <1>1, <2>2, <2>3 DEF Mastered, TypeOK
  <2>5. \A k \in Links : OnItsWay(pull'[k])
    BY <1>1, <2>3 DEF Mastered, TypeOK, OnItsWay, Idle
  <2> QED BY <1>1, <2>4, <2>5 DEF Mastered, Numbered, OnItsWay
<1>6. CASE Lose(l)
  <2>1. pull' = [pull EXCEPT ![l] = Idle] /\ log' = log
    BY <1>6 DEF Lose, logs
  <2>2. Idle \in Pulls /\ OnItsWay(Idle)
    BY DEF Pulls, OnItsWay, Idle
  <2> QED BY <1>2, <2>1, <2>2
<1> QED BY <1>3, <1>4, <1>5, <1>6 DEF Pull

LEMMA PersistKeepsHistory ==
  ASSUME HistoryInv, NEW n \in Nodes, NEW k \in 0 .. Len(log[n]), NEW torn \in BOOLEAN, ~forked,
         file' = [file EXCEPT ![n] = [recs |-> Overwritten(n, k), torn |-> torn]],
         UNCHANGED <<log, pull, authored>>
  PROVE  Mastered'
<1> DEFINE w == Overwritten(n, k)
           f == file[n].recs
<1>1. TypeOK /\ Mastered
  BY DEF HistoryInv
<1>2. /\ w \in Entries
      /\ \A i \in 1 .. Len(w) : (i <= k /\ w[i] = log[n][i]) \/ (k < i /\ i \in 1 .. Len(f) /\ w[i] = f[i])
  BY <1>1, OverwrittenIs
<1> HIDE DEF w
<1>3. /\ DOMAIN w = 1 .. Len(w) /\ DOMAIN f = 1 .. Len(f) /\ DOMAIN log[n] = 1 .. Len(log[n])
      /\ Len(log[n]) \in Nat /\ Len(w) \in Nat
  BY <1>1, <1>2 DEF TypeOK, FileType, Entries
<1>4. Numbered(f) /\ Numbered(log[n])
  BY <1>1 DEF Mastered
<1>5. Numbered(w)
  <2> SUFFICES ASSUME NEW i \in 1 .. Len(w) PROVE w[i] = i /\ i <= authored
    BY <1>3 DEF Numbered
  <2>1. CASE i <= k /\ w[i] = log[n][i]
    BY <2>1, <1>3, <1>4 DEF Numbered
  <2>2. CASE i \in 1 .. Len(f) /\ w[i] = f[i]
    BY <2>2, <1>3, <1>4 DEF Numbered
  <2> QED BY <1>2, <2>1, <2>2
<1>6. \A m \in Nodes : file'[m].recs = IF m = n THEN w ELSE file[m].recs
  BY <1>1 DEF TypeOK, w
<1> QED BY <1>1, <1>5, <1>6 DEF Mastered, Numbered, OnItsWay

LEMMA NextHistory == HistoryInv /\ [Next]_vars => HistoryInv'
<1> SUFFICES ASSUME HistoryInv, [Next]_vars, ~forked' PROVE Mastered'
  BY NextTypes DEF HistoryInv
<1> USE DEF vars, logs, disk, author
<1>1. CASE append
  BY <1>1, AppendKeepsHistory
<1>2. ASSUME NEW l \in Links, Pull(l) \/ Lose(l) PROVE Mastered'
  BY <1>2, PullKeepsHistory
<1>3. ASSUME NEW n \in Nodes, PersistStart(n) PROVE Mastered'
  <2>1. Numbered(Empty)
    BY DEF Numbered, Empty
  <2>2. /\ TypeOK /\ Mastered /\ UNCHANGED <<log, pull, authored>>
        /\ file' = [file EXCEPT ![n] = [recs |-> Empty, torn |-> FALSE]]
    BY <1>3 DEF PersistStart, Truncated, HistoryInv
  <2>3. \A m \in Nodes : file'[m].recs = file[m].recs \/ file'[m].recs = Empty
    BY <2>2 DEF TypeOK
  <2> QED BY <2>1, <2>2, <2>3 DEF Mastered, Numbered, OnItsWay
<1>4. ASSUME NEW n \in Nodes, NEW k \in 0 .. MaxEvents, NEW torn \in BOOLEAN, PersistSpill(n, k, torn)
      PROVE  Mastered'
  <2>1. k \in 0 .. Len(log[n])
    BY <1>4, LogAssumption DEF PersistSpill, HistoryInv, TypeOK, Entries
  <2>2. /\ ~forked /\ UNCHANGED <<log, pull, authored>>
        /\ file' = [file EXCEPT ![n] = [recs |-> Overwritten(n, k), torn |-> torn]]
    BY <1>4 DEF PersistSpill
  <2> QED BY <2>1, <2>2, PersistKeepsHistory
<1>5. ASSUME NEW n \in Nodes, PersistEnd(n) PROVE Mastered'
  <2>1. Len(log[n]) \in 0 .. Len(log[n])
    BY DEF HistoryInv, TypeOK, Entries
  <2>2. /\ ~forked /\ UNCHANGED <<log, pull, authored>>
        /\ file' = [file EXCEPT ![n] = [recs |-> Overwritten(n, Len(log[n])), torn |-> FALSE]]
    BY <1>5 DEF PersistEnd
  <2> QED BY <2>1, <2>2, PersistKeepsHistory
<1>6. ASSUME NEW n \in Nodes, Crash(n) PROVE Mastered'
  <2>1. /\ Mastered /\ UNCHANGED <<log, file, authored>>
        /\ \A l \in Links : pull'[l] = Idle \/ pull'[l] = pull[l]
    BY <1>6 DEF Crash, HistoryInv
  <2> QED BY <2>1 DEF Mastered, Numbered, OnItsWay, Idle
<1>7. ASSUME NEW n \in Nodes, Start(n) PROVE Mastered'
  <2>1. TypeOK /\ Mastered /\ UNCHANGED <<file, pull, authored>>
    BY <1>7 DEF Start, Restore, StartEmpty, HistoryInv
  <2>2. \A m \in Nodes : \/ log'[m] = log[m] \/ log'[m] = Empty \/ log'[m] = file[m].recs
    BY <1>7, <2>1 DEF Start, Restore, StartEmpty, TypeOK
  <2>3. Numbered(Empty)
    BY DEF Numbered, Empty
  <2> QED BY <2>1, <2>2, <2>3 DEF Mastered, Numbered, OnItsWay
<1>8. CASE UNCHANGED vars
  BY <1>8 DEF HistoryInv, Mastered, Numbered, OnItsWay
<1> QED BY <1>1, <1>2, <1>3, <1>4, <1>5, <1>6, <1>7, <1>8 DEF Next

(* As long as the writer never appends to a log that lacks what it wrote    *)
(* before, every node holds the master chain up to some point, whatever it  *)
(* pulled by stale plans and from nodes that lost their tails.              *)
THEOREM EveryLogIsMaster == Spec => []OneHistory
<1>1. HistoryInv => OneHistory
  BY DEF HistoryInv, Mastered, Numbered, OneHistory, OnMaster
<1> QED BY InitHistory, NextHistory, <1>1, PTL DEF Spec

-----------------------------------------------------------------------------
(* What survives a crash                                                    *)

DiskOK(n) ==
    /\ writing[n] => up[n] /\ saved[n].torn /\ Len(file[n].recs) <= Len(log[n])
    /\ ~file[n].torn => IsPrefixOf(file[n].recs, log[n])
    /\ ~saved[n].torn => file[n] = saved[n]

DiskInv == TypeOK /\ \A n \in Nodes : DiskOK(n)

LEMMA InitDisk == Init => DiskInv
<1> SUFFICES ASSUME Init, NEW n \in Nodes PROVE DiskOK(n)
  BY InitTypes DEF DiskInv
<1> QED BY DEF Init, DiskOK, Unsaved

(* A log that only grows keeps what was said of its file.                   *)
LEMMA GrowthKeepsDisk ==
  ASSUME TypeOK, NEW n \in Nodes, DiskOK(n), ~writing[n],
         log'[n] \in Entries, IsPrefixOf(log[n], log'[n]), UNCHANGED <<up, file, writing, saved>>
  PROVE  DiskOK(n)'
<1>1. file[n].recs \in Entries /\ log[n] \in Entries
  BY DEF TypeOK, FileType
<1>2. ~file[n].torn => IsPrefixOf(file[n].recs, log'[n])
  BY <1>1, PrefixTrans DEF DiskOK
<1> QED BY <1>2 DEF DiskOK, IsPrefixOf

LEMMA SpillKeepsDisk ==
  ASSUME TypeOK, NEW n \in Nodes, DiskOK(n), writing[n],
         NEW k \in 0 .. Len(log[n]), NEW torn \in BOOLEAN, Len(file[n].recs) <= k,
         file' = [file EXCEPT ![n] = [recs |-> Overwritten(n, k), torn |-> torn]],
         UNCHANGED <<up, log, writing, saved>>
  PROVE  DiskOK(n)'
<1> DEFINE w == Overwritten(n, k)
<1>1. Len(log[n]) \in Nat /\ DOMAIN log[n] = 1 .. Len(log[n]) /\ Len(file[n].recs) \in Nat
  BY DEF TypeOK, FileType, Entries
<1>2. /\ w \in Entries /\ Len(w) = k
      /\ \A i \in 1 .. k : w[i] = log[n][i]
  <2>1. w \in Entries /\ Len(w) = k
    BY OverwrittenIs
  <2>2. \A i \in 1 .. Len(w) : (i <= k /\ w[i] = log[n][i])
                               \/ (k < i /\ i \in 1 .. Len(file[n].recs) /\ w[i] = file[n].recs[i])
    BY OverwrittenIs
  <2> QED BY <2>1, <2>2
<1>3. DOMAIN w = 1 .. k /\ k \in Nat /\ k <= Len(log[n])
  BY <1>1, <1>2 DEF Entries
<1>4. IsPrefixOf(w, log[n])
  BY <1>2, <1>3 DEF IsPrefixOf
<1>5. file'[n] = [recs |-> w, torn |-> torn]
  BY DEF TypeOK, w
<1> HIDE DEF w
<1>6. IsPrefixOf(file'[n].recs, log'[n]) /\ Len(file'[n].recs) <= Len(log'[n])
  BY <1>2, <1>3, <1>4, <1>5
<1>7. up'[n] /\ saved'[n].torn
  BY DEF DiskOK
<1> QED BY <1>6, <1>7 DEF DiskOK

LEMMA EndKeepsDisk ==
  ASSUME TypeOK, NEW n \in Nodes, DiskOK(n), PersistEnd(n)
  PROVE  DiskOK(n)'
<1> DEFINE w == Overwritten(n, Len(log[n]))
<1>1. /\ Len(log[n]) \in Nat /\ DOMAIN log[n] = 1 .. Len(log[n]) /\ log[n] \in Seq(Nat)
      /\ Len(log[n]) \in 0 .. Len(log[n]) /\ Len(file[n].recs) <= Len(log[n])
  BY DEF TypeOK, FileType, Entries, PersistEnd, DiskOK
<1>2. /\ w \in Entries /\ Len(w) = Len(log[n])
      /\ \A i \in 1 .. Len(w) : (i <= Len(log[n]) /\ w[i] = log[n][i])
                               \/ (Len(log[n]) < i /\ i \in 1 .. Len(file[n].recs) /\ w[i] = file[n].recs[i])
  BY <1>1, OverwrittenIs
<1> HIDE DEF w
<1>3. w = log[n]
  <2>1. \A i \in 1 .. Len(w) : w[i] = log[n][i]
    BY <1>1, <1>2
  <2> QED BY <1>1, <1>2, <2>1, SeqEqual DEF Entries
<1>4. /\ file'[n] = [recs |-> w, torn |-> FALSE] /\ saved'[n] = [recs |-> log[n], torn |-> FALSE]
      /\ ~writing'[n] /\ log' = log
  BY DEF PersistEnd, TypeOK, w, logs
<1>5. IsPrefixOf(file'[n].recs, log'[n])
  BY <1>1, <1>3, <1>4, PrefixRefl DEF Entries
<1> QED BY <1>3, <1>4, <1>5 DEF DiskOK

LEMMA NextDisk == DiskInv /\ [Next]_vars => DiskInv'
<1> SUFFICES ASSUME DiskInv, [Next]_vars, NEW m \in Nodes PROVE DiskOK(m)'
  BY NextTypes DEF DiskInv
<1> USE DEF vars, logs, disk, author
<1>a. TypeOK /\ TypeOK' /\ DiskOK(m)
  BY NextTypes DEF DiskInv
<1>b. CASE UNCHANGED <<up, log, file, writing, saved>>
  BY <1>a, <1>b DEF DiskOK
<1>c. \A n \in Nodes : log[n] \in Entries /\ log'[n] \in Entries /\ IsPrefixOf(log[n], log[n])
  BY <1>a, PrefixRefl DEF TypeOK
(* What a step does to one node leaves the disks of the others alone.       *)
<1>d. ASSUME NEW n \in Nodes, m # n,
             \A k \in Nodes : k # n =>
                 /\ up'[k] = up[k] /\ log'[k] = log[k] /\ file'[k] = file[k]
                 /\ writing'[k] = writing[k] /\ saved'[k] = saved[k]
      PROVE  DiskOK(m)'
  BY <1>a, <1>d DEF DiskOK
<1>1. CASE append
  <2>1. /\ ~writing[Writer] /\ UNCHANGED <<up, file, writing, saved>>
        /\ log' = [log EXCEPT ![Writer] = Append(@, authored')]
    BY <1>1 DEF append, Free
  <2>2. CASE m = Writer
    <3>1. log'[m] = Append(log[m], authored') /\ authored' \in Nat
      BY <1>a, <2>1, <2>2 DEF TypeOK
    <3>2. IsPrefixOf(log[m], log'[m])
      BY <1>c, <3>1 DEF IsPrefixOf, Entries
    <3> QED BY <1>a, <1>c, <2>1, <2>2, <3>2, GrowthKeepsDisk
  <2>3. CASE m # Writer
    <3>1. \A k \in Nodes : k # Writer => log'[k] = log[k]
      BY <1>a, <2>1 DEF TypeOK
    <3> QED BY <1>d, <2>1, <2>3, <3>1, LogAssumption
  <2> QED BY <2>2, <2>3
<1>2. ASSUME NEW l \in Links, Pull(l) \/ Lose(l) PROVE DiskOK(m)'
  <2>1. CASE Plan(l) \/ Ship(l) \/ Lose(l)
    BY <1>b, <2>1 DEF Plan, Ship, Lose
  <2>2. CASE Apply(l)
    <3> DEFINE r == l[1]
               u == apply_pull(log[r], pull[l].from, pull[l].missing)
    <3>1. r \in Nodes /\ pull[l] \in Pulls /\ log[r] \in Entries
      BY <1>a, LogAssumption DEF TypeOK
    <3>2. pull[l].from \in Nat /\ pull[l].missing \in Entries
      BY <3>1, <2>2 DEF Apply, Pulls, Idle
    <3>3. IsPrefixOf(log[r], u)
      BY <3>1, <3>2, AppliedIs
    <3>4. /\ ~writing[r] /\ UNCHANGED <<up, file, writing, saved>> /\ log' = [log EXCEPT ![r] = u]
      BY <2>2 DEF Apply, Free
    <3> HIDE DEF u, r
    <3>5. \A k \in Nodes : log'[k] = IF k = r THEN u ELSE log[k]
      BY <1>a, <3>4 DEF TypeOK
    <3>6. CASE m = r
      BY <1>a, <1>c, <3>3, <3>4, <3>5, <3>6, GrowthKeepsDisk
    <3>7. CASE m # r
      BY <1>d, <3>1, <3>4, <3>5, <3>7
    <3> QED BY <3>6, <3>7
  <2> QED BY <1>2, <2>1, <2>2 DEF Pull
<1>3. ASSUME NEW n \in Nodes, PersistStart(n) PROVE DiskOK(m)'
  <2>1. \A k \in Nodes : k # n =>
            /\ up'[k] = up[k] /\ log'[k] = log[k] /\ file'[k] = file[k]
            /\ writing'[k] = writing[k] /\ saved'[k] = saved[k]
    BY <1>3, <1>a DEF PersistStart, TypeOK
  <2>2. CASE m = n
    <3>1. /\ up'[m] /\ saved'[m].torn /\ file'[m].recs = Empty /\ log'[m] \in Entries
      BY <1>3, <1>a, <2>2 DEF PersistStart, Truncated, Unsaved, TypeOK, Free
    <3>2. IsPrefixOf(Empty, log'[m]) /\ Len(Empty) <= Len(log'[m])
      BY <3>1 DEF IsPrefixOf, Empty, Entries
    <3> QED BY <3>1, <3>2 DEF DiskOK
  <2> QED BY <1>d, <2>1, <2>2
<1>4. ASSUME NEW n \in Nodes, NEW k \in 0 .. MaxEvents, NEW torn \in BOOLEAN, PersistSpill(n, k, torn)
      PROVE  DiskOK(m)'
  <2>1. /\ UNCHANGED <<up, log, writing, saved>>
        /\ file' = [file EXCEPT ![n] = [recs |-> Overwritten(n, k), torn |-> torn]]
        /\ writing[n] /\ Len(file[n].recs) <= k
    BY <1>4 DEF PersistSpill
  <2>2. k \in 0 .. Len(log[n])
    BY <1>4, <1>c, LogAssumption DEF PersistSpill, Entries
  <2>3. CASE m = n
    BY <1>a, <2>1, <2>2, <2>3, SpillKeepsDisk
  <2>4. \A j \in Nodes : j # n => file'[j] = file[j]
    BY <1>a, <2>1 DEF TypeOK
  <2> QED BY <1>d, <2>1, <2>3, <2>4
<1>5. ASSUME NEW n \in Nodes, PersistEnd(n) PROVE DiskOK(m)'
  <2>1. \A k \in Nodes : k # n =>
            /\ up'[k] = up[k] /\ log'[k] = log[k] /\ file'[k] = file[k]
            /\ writing'[k] = writing[k] /\ saved'[k] = saved[k]
    BY <1>5, <1>a DEF PersistEnd, TypeOK
  <2>2. CASE m = n
    BY <1>5, <1>a, <2>2, EndKeepsDisk
  <2> QED BY <1>d, <2>1, <2>2
<1>6. ASSUME NEW n \in Nodes, Crash(n) PROVE DiskOK(m)'
  <2>1. /\ UNCHANGED <<log, file, saved>>
        /\ \A k \in Nodes : k # n => up'[k] = up[k] /\ writing'[k] = writing[k]
        /\ ~writing'[n]
    BY <1>6, <1>a DEF Crash, TypeOK
  <2>2. CASE m = n
    BY <1>a, <2>1, <2>2 DEF DiskOK
  <2> QED BY <1>d, <2>1, <2>2
<1>7. ASSUME NEW n \in Nodes, Start(n) PROVE DiskOK(m)'
  <2>1. /\ UNCHANGED <<file, saved, writing>> /\ ~up[n]
        /\ \A k \in Nodes : k # n => up'[k] = up[k] /\ log'[k] = log[k]
    BY <1>7, <1>a DEF Start, Restore, StartEmpty, TypeOK
  <2>2. CASE m = n
    <3>1. ~writing'[m] /\ (~file[m].torn => log'[m] = file[m].recs)
      BY <1>7, <1>a, <2>1, <2>2 DEF Start, Restore, StartEmpty, TypeOK, DiskOK
    <3>2. IsPrefixOf(file[m].recs, file[m].recs)
      BY <1>a, PrefixRefl DEF TypeOK, FileType
    <3> QED BY <1>a, <2>1, <3>1, <3>2 DEF DiskOK
  <2> QED BY <1>d, <2>1, <2>2
<1>8. CASE UNCHANGED vars
  BY <1>b, <1>8
<1> QED BY <1>1, <1>2, <1>3, <1>4, <1>5, <1>6, <1>7, <1>8 DEF Next

LEMMA DiskAlways == Spec => []DiskInv
  BY InitDisk, NextDisk, PTL DEF Spec

(* What a persist that came to its end has written is what the next start    *)
(* finds, unless another persist was begun.                                 *)
THEOREM SavedIsRestored == Spec => SavedSurvives
<1>1. DiskInv => [\A n \in Nodes : Start(n) /\ ~saved[n].torn => log'[n] = saved[n].recs]_vars
  <2> SUFFICES ASSUME DiskInv, NEW n \in Nodes, Start(n), ~saved[n].torn
               PROVE  log'[n] = saved[n].recs
    OBVIOUS
  <2> QED BY DEF DiskInv, DiskOK, TypeOK, Start, Restore, StartEmpty
<1> QED BY <1>1, DiskAlways, PTL DEF SavedSurvives

(* A node never starts with anything but a part, from the beginning, of the  *)
(* log it had when it stopped.                                              *)
THEOREM RestoredIsPast == Spec => RestoresOwnPast
<1>1. DiskInv => [\A n \in Nodes : Start(n) => IsPrefixOf(log'[n], log[n])]_vars
  <2> SUFFICES ASSUME DiskInv, NEW n \in Nodes, Start(n)
               PROVE  IsPrefixOf(log'[n], log[n])
    OBVIOUS
  <2>1. log[n] \in Entries /\ TypeOK /\ DiskOK(n)
    BY DEF DiskInv, TypeOK
  <2>2. CASE Restore(n)
    BY <2>1, <2>2 DEF Restore, DiskOK, TypeOK
  <2>3. CASE StartEmpty(n)
    <3>1. log'[n] = Empty
      BY <2>1, <2>3 DEF StartEmpty, TypeOK
    <3> QED BY <2>1, <3>1 DEF Empty, IsPrefixOf, Entries
  <2> QED BY <2>2, <2>3 DEF Start
<1> QED BY <1>1, DiskAlways, PTL DEF RestoresOwnPast

-----------------------------------------------------------------------------
(* What a pull does to two logs, whatever they are                          *)

LEMMA FirstOf ==
  ASSUME NEW T \in SUBSET Nat, T # {}
  PROVE  \E x \in T : \A y \in T : x <= y
<1> DEFINE R == OpToRel(<, Nat)
<1>1. PICK x \in T : \A y \in T : ~(<<y, x>> \in R)
  BY NatLessThanWellFounded, WFMin
<1>2. \A a, b \in Nat : a < b => <<a, b>> \in R
  BY DEF OpToRel
<1> HIDE DEF R
<1>3. ASSUME NEW y \in T PROVE x <= y
  <2>1. x \in Nat /\ y \in Nat /\ ~(y < x)
    BY <1>1, <1>2
  <2> QED BY <2>1
<1> QED BY <1>3

Differing(s, t) == {i \in DOMAIN s \cap DOMAIN t : s[i] # t[i]}

(* Two logs that differ nowhere: one is a part of the other.                *)
LEMMA Agreeing ==
  ASSUME NEW s \in Entries, NEW t \in Entries
  PROVE  /\ Differing(s, t) = {} /\ Len(s) <= Len(t) => IsPrefixOf(s, t)
         /\ IsPrefixOf(s, t) => Differing(s, t) = {}
         /\ IsPrefixOf(s, t) => Differing(t, s) = {}
<1>1. /\ DOMAIN s = 1 .. Len(s) /\ DOMAIN t = 1 .. Len(t)
      /\ Len(s) \in Nat /\ Len(t) \in Nat
  BY DEF Entries
<1> QED BY <1>1 DEF Differing, IsPrefixOf

LEMMA PrefixesEqual ==
  ASSUME NEW s \in Entries, NEW t \in Entries, IsPrefixOf(s, t), Len(t) <= Len(s)
  PROVE  s = t
<1>1. /\ s \in Seq(Nat) /\ t \in Seq(Nat) /\ Len(s) \in Nat /\ Len(t) \in Nat
      /\ DOMAIN s = 1 .. Len(s) /\ DOMAIN t = 1 .. Len(t)
  BY DEF Entries
<1>2. Len(s) <= Len(t) /\ \A i \in DOMAIN s : s[i] = t[i]
  BY DEF IsPrefixOf
<1>3. Len(s) = Len(t)
  <2>1. \A a, b \in Nat : a <= b /\ b <= a => a = b
    OBVIOUS
  <2> QED BY <1>1, <1>2, <2>1
<1>4. \A i \in 1 .. Len(s) : s[i] = t[i]
  BY <1>1, <1>2
<1> QED BY <1>1, <1>3, <1>4, SeqEqual

(* A log that is a part of the other one gets the rest of it.               *)
LEMMA Continued ==
  ASSUME NEW s \in Entries, NEW t \in Entries, IsPrefixOf(s, t)
  PROVE  apply_pull(s, Len(s), replay(t, Len(s))) = t
<1> DEFINE k == Len(s)
           r == SubSeq(t, k + 1, Len(t))
           u == s \o r
<1>1. /\ s \in Seq(Nat) /\ t \in Seq(Nat) /\ k \in Nat /\ Len(t) \in Nat /\ k <= Len(t)
      /\ DOMAIN s = 1 .. k /\ DOMAIN t = 1 .. Len(t) /\ k + 1 \in Nat \ {0}
      /\ Len(t) \in 0 .. Len(t)
      /\ \A i \in 1 .. k : s[i] = t[i]
  BY DEF Entries, IsPrefixOf
<1>2. /\ r \in Seq(Nat)
      /\ Len(r) = IF k + 1 <= Len(t) THEN Len(t) - (k + 1) + 1 ELSE 0
      /\ \A i \in 1 .. Len(r) : r[i] = t[(k + 1) + i - 1]
  BY <1>1, SubSeqOf
<1> HIDE DEF r
<1>3. /\ u \in Seq(Nat) /\ Len(u) = k + Len(r)
      /\ \A i \in 1 .. k : u[i] = s[i]
      /\ \A i \in k + 1 .. k + Len(r) : u[i] = r[i - k]
  BY <1>1, <1>2, ConcatOf
<1> HIDE DEF u, k
<1>4. Len(r) = Len(t) - k
  <2>1. \A a, b \in Nat : a <= b => b - a = IF a + 1 <= b THEN b - (a + 1) + 1 ELSE 0
    OBVIOUS
  <2> QED BY <1>1, <1>2, <2>1
<1>5. Len(u) = Len(t)
  BY <1>1, <1>3, <1>4
<1>6. ASSUME NEW i \in 1 .. Len(t) PROVE u[i] = t[i]
  <2>1. CASE i <= k
    BY <1>1, <1>3, <2>1
  <2>2. CASE i > k
    <3>1. i \in k + 1 .. k + Len(r) /\ i - k \in 1 .. Len(r) /\ (k + 1) + (i - k) - 1 = i
      BY <1>1, <1>4, <2>2
    <3> QED BY <1>2, <1>3, <3>1
  <2> QED BY <1>1, <2>1, <2>2
<1>7. u = t
  BY <1>1, <1>3, <1>5, <1>6, SeqEqual
<1> QED BY <1>7 DEF apply_pull, replay, u, r, k

(* anti_entropy.rs:65-77 and :109-120: diff and apply_pull, for any two logs *)
(* at all.  Nothing is pulled just when local has all that remote has; a     *)
(* local log that is behind is pulled from its end, and ends up equal to the *)
(* remote one; of a fork, diff names one entry that local already holds, so  *)
(* that apply_pull leaves the log as it was.                                *)
THEOREM PullOutcome ==
  ASSUME NEW local \in Entries, NEW remote \in Entries
  PROVE  /\ diff(local, remote) = {} <=> IsPrefixOf(remote, local)
         /\ IsPrefixOf(local, remote) /\ local # remote =>
                /\ diff(local, remote) = {Len(local)}
                /\ apply_pull(local, Len(local), replay(remote, Len(local))) = remote
         /\ ~IsPrefixOf(remote, local) /\ ~IsPrefixOf(local, remote) =>
                \E from \in 0 .. Len(local) - 1 :
                    /\ diff(local, remote) = {from}
                    /\ apply_pull(local, from, replay(remote, from)) = local
<1> DEFINE D == Differing(local, remote)
           firsts == {i \in D : \A j \in D : i <= j}
<1>1. /\ Len(local) \in Nat /\ Len(remote) \in Nat
      /\ DOMAIN local = 1 .. Len(local) /\ DOMAIN remote = 1 .. Len(remote)
      /\ D \in SUBSET (1 .. Len(local)) /\ D \in SUBSET Nat
  BY DEF Entries, Differing
<1>2. diff(local, remote) = IF D # {} THEN {i - 1 : i \in firsts}
                            ELSE IF Len(remote) > Len(local) THEN {Len(local)} ELSE {}
  BY DEF diff, Differing
<1>3. D = {} /\ Len(remote) <= Len(local) => IsPrefixOf(remote, local)
  <2>1. Differing(remote, local) = D
    BY DEF Differing
  <2> QED BY <2>1, Agreeing
<1>4. IsPrefixOf(remote, local) => D = {} /\ Len(remote) <= Len(local)
  BY Agreeing DEF IsPrefixOf
<1>5. D = {} /\ Len(local) <= Len(remote) => IsPrefixOf(local, remote)
  BY Agreeing
<1>6. IsPrefixOf(local, remote) => D = {} /\ Len(local) <= Len(remote)
  BY Agreeing DEF IsPrefixOf
<1>7. D # {} => \E x \in 1 .. Len(local) : firsts = {x}
  <2> SUFFICES ASSUME D # {} PROVE \E x \in 1 .. Len(local) : firsts = {x}
    OBVIOUS
  <2>1. PICK x \in D : \A y \in D : x <= y
    BY <1>1, FirstOf
  <2>2. ASSUME NEW y \in firsts PROVE y = x
    <3>1. x \in Nat /\ y \in Nat /\ x <= y /\ y <= x
      BY <1>1, <2>1
    <3> QED BY <3>1
  <2>3. firsts = {x} /\ x \in 1 .. Len(local)
    BY <1>1, <2>1, <2>2
  <2> QED BY <2>3
<1> HIDE DEF D, firsts
<1>8. diff(local, remote) = {} <=> IsPrefixOf(remote, local)
  <2>1. CASE D # {}
    BY <2>1, <1>2, <1>4, <1>7
  <2>2. CASE D = {}
    BY <2>2, <1>1, <1>2, <1>3, <1>4
  <2> QED BY <2>1, <2>2
<1>9. ASSUME IsPrefixOf(local, remote), local # remote
      PROVE  /\ diff(local, remote) = {Len(local)}
             /\ apply_pull(local, Len(local), replay(remote, Len(local))) = remote
  <2>1. Len(remote) > Len(local)
    BY <1>1, <1>9, PrefixesEqual
  <2> QED BY <1>2, <1>6, <1>9, <2>1, Continued
<1>10. ASSUME ~IsPrefixOf(remote, local), ~IsPrefixOf(local, remote)
       PROVE  \E from \in 0 .. Len(local) - 1 :
                  /\ diff(local, remote) = {from}
                  /\ apply_pull(local, from, replay(remote, from)) = local
  <2>1. D # {}
    BY <1>1, <1>3, <1>5, <1>10
  <2>2. PICK x \in 1 .. Len(local) : firsts = {x}
    BY <1>7, <2>1
  <2>3. /\ diff(local, remote) = {x - 1}
        /\ x - 1 \in 0 .. Len(local) - 1 /\ x - 1 # Len(local)
    BY <1>1, <1>2, <2>1, <2>2
  <2> QED BY <2>3 DEF apply_pull
<1> QED BY <1>8, <1>9, <1>10

(* The safety half of LogsConverge (anti_entropy.rs:65-67, "must pull from   *)
(* the remote to converge"): unless the writer forks the chain, of any two   *)
(* nodes at any moment one has what the other has and perhaps more; a node   *)
(* that finds nothing to pull lacks nothing the other one has, and a pull    *)
(* that nothing comes between leaves it with the other one's log.           *)
THEOREM PullCatchesUp ==
  Spec => [](~forked =>
      \A m, n \in Nodes :
          /\ IsPrefixOf(log[m], log[n]) \/ IsPrefixOf(log[n], log[m])
          /\ diff(log[m], log[n]) = {} => IsPrefixOf(log[n], log[m])
          /\ \A from \in diff(log[m], log[n]) :
                 apply_pull(log[m], from, replay(log[n], from)) = log[n])
<1> DEFINE P == ~forked =>
      \A m, n \in Nodes :
          /\ IsPrefixOf(log[m], log[n]) \/ IsPrefixOf(log[n], log[m])
          /\ diff(log[m], log[n]) = {} => IsPrefixOf(log[n], log[m])
          /\ \A from \in diff(log[m], log[n]) :
                 apply_pull(log[m], from, replay(log[n], from)) = log[n]
<1>1. HistoryInv => P
  <2> SUFFICES ASSUME TypeOK, Mastered, NEW m \in Nodes, NEW n \in Nodes
               PROVE  /\ IsPrefixOf(log[m], log[n]) \/ IsPrefixOf(log[n], log[m])
                      /\ diff(log[m], log[n]) = {} => IsPrefixOf(log[n], log[m])
                      /\ \A from \in diff(log[m], log[n]) :
                             apply_pull(log[m], from, replay(log[n], from)) = log[n]
    BY DEF HistoryInv
  <2> DEFINE s == log[m]
             t == log[n]
  <2>1. /\ s \in Entries /\ t \in Entries /\ Numbered(s) /\ Numbered(t)
    BY DEF TypeOK, Mastered
  <2> HIDE DEF s, t
  <2>2. /\ DOMAIN s = 1 .. Len(s) /\ DOMAIN t = 1 .. Len(t)
        /\ Len(s) \in Nat /\ Len(t) \in Nat
    BY <2>1 DEF Entries
  <2>3. IsPrefixOf(s, t) \/ IsPrefixOf(t, s)
    BY <2>1, <2>2 DEF IsPrefixOf, Numbered
  <2>4. diff(s, t) = {} <=> IsPrefixOf(t, s)
    BY <2>1, PullOutcome
  <2>5. \A from \in diff(s, t) : apply_pull(s, from, replay(t, from)) = t
    <3>1. CASE IsPrefixOf(t, s)
      BY <2>4, <3>1
    <3>2. CASE ~IsPrefixOf(t, s)
      <4>1. IsPrefixOf(s, t) /\ s # t
        BY <2>1, <2>3, <3>2, PrefixRefl
      <4>2. /\ diff(s, t) = {Len(s)}
            /\ apply_pull(s, Len(s), replay(t, Len(s))) = t
        BY <2>1, <4>1, PullOutcome
      <4> QED BY <4>2
    <3> QED BY <3>1, <3>2
  <2> QED BY <2>3, <2>4, <2>5 DEF s, t
<1> QED BY InitHistory, NextHistory, <1>1, PTL DEF Spec
=============================================================================
