------------------------------ MODULE Induction ------------------------------
(***************************************************************************)
(* Induction over the natural numbers, for the loops of the model: a loop  *)
(* over a file, a list or a buffer is a recursive function of the number   *)
(* of rounds.  The property is a set, so that a prover can instantiate it. *)
(***************************************************************************)
EXTENDS Integers, WellFoundedInduction, TLAPS

(* A set of natural numbers has a least one. *)
LEMMA Least ==
    ASSUME NEW T \in SUBSET Nat, T # {}
    PROVE  \E n \in T : \A k \in T : n <= k
<1>. DEFINE R == OpToRel(<, Nat)
<1>1. IsWellFoundedOn(R, Nat)
  BY NatLessThanWellFounded
<1>2. R = {pair \in Nat \X Nat : pair[1] < pair[2]}
  BY DEF OpToRel
<1>. HIDE DEF R
<1>3. PICK n \in T : \A k \in T : ~(<<k, n>> \in R)
  BY <1>1, WFMin
<1>4. ASSUME NEW k \in T PROVE n <= k
  <2>1. n \in Nat /\ k \in Nat
    OBVIOUS
  <2>2. ~(k < n)
    BY <1>2, <1>3, <2>1
  <2>. QED  BY <2>1, <2>2
<1>. QED  BY <1>4

(* What holds of 0, and of n + 1 if it holds of n, holds of every number. *)
LEMMA SetInduction ==
    ASSUME NEW S, 0 \in S, \A n \in Nat : n \in S => n + 1 \in S
    PROVE  Nat \subseteq S
<1>. DEFINE T == {n \in Nat : n \notin S}
<1>1. SUFFICES ASSUME T # {} PROVE FALSE
  OBVIOUS
<1>2. PICK n \in T : \A k \in T : n <= k
  BY <1>1, Least
<1>3. n # 0
  OBVIOUS
<1>4. n - 1 \in Nat /\ n - 1 \notin T
  BY <1>2, <1>3
<1>. QED  BY <1>4

(* The states of a loop of n rounds that begins with v. *)
LoopStates(g, n, S, v, F) == g \in [0..n -> S] /\ g[0] = v /\ \A k \in 1..n : g[k] = F[<<g[k - 1], k>>]

LEMMA Rounds ==
    ASSUME NEW n \in Nat, NEW S, NEW v \in S, NEW F \in [S \X (1..n) -> S]
    PROVE  \E g : LoopStates(g, n, S, v, F)
<1>. DEFINE Upto(g, m) == g \in [0..m -> S] /\ g[0] = v /\ \A k \in 1..m : g[k] = F[<<g[k - 1], k>>]
            T == {m \in Nat : m <= n => \E g : Upto(g, m)}
<1>1. 0 \in T
  <2>. DEFINE g == [k \in 0..0 |-> v]
  <2>1. Upto(g, 0)
    OBVIOUS
  <2>. QED  BY <2>1
<1>2. ASSUME NEW m \in Nat, m \in T PROVE m + 1 \in T
  <2>. SUFFICES ASSUME m + 1 <= n PROVE \E g : Upto(g, m + 1)
    OBVIOUS
  <2>1. PICK g : Upto(g, m)
    BY <1>2
  <2>. DEFINE h == [k \in 0..(m + 1) |-> IF k <= m THEN g[k] ELSE F[<<g[m], m + 1>>]]
  <2>2. F[<<g[m], m + 1>>] \in S
    BY <2>1
  <2>3. h \in [0..(m + 1) -> S] /\ h[0] = v
    BY <2>1, <2>2
  <2>4. ASSUME NEW k \in 1..(m + 1) PROVE h[k] = F[<<h[k - 1], k>>]
    <3>1. h[k - 1] = g[k - 1] /\ h[k] = IF k <= m THEN g[k] ELSE F[<<g[m], m + 1>>]
      OBVIOUS
    <3>2. k <= m => g[k] = F[<<g[k - 1], k>>]
      BY <2>1
    <3>3. ~(k <= m) => k = m + 1 /\ k - 1 = m
      OBVIOUS
    <3>. QED  BY ONLY <3>1, <3>2, <3>3
  <2>. QED  BY <2>3, <2>4
<1>. HIDE DEF T
<1>3. n \in T
  BY <1>1, <1>2, SetInduction
<1>. QED  BY <1>3 DEF T, LoopStates

(* What every round of a loop keeps holds after all of them. *)
LEMMA RoundsStay ==
    ASSUME NEW n \in Nat, NEW S, NEW g, g[0] \in S, \A k \in 1..n : g[k - 1] \in S => g[k] \in S
    PROVE  \A k \in 0..n : g[k] \in S
<1>. DEFINE T == {m \in Nat : m <= n => g[m] \in S}
<1>1. 0 \in T
  OBVIOUS
<1>2. ASSUME NEW m \in Nat, m \in T PROVE m + 1 \in T
  <2>1. SUFFICES ASSUME m + 1 <= n PROVE g[m + 1] \in S
    OBVIOUS
  <2>2. m + 1 \in 1..n /\ (m + 1) - 1 = m /\ g[m] \in S
    BY <1>2, <2>1
  <2>. QED  BY <2>2
<1>. HIDE DEF T
<1>3. Nat \subseteq T
  BY <1>1, <1>2, SetInduction
<1>. QED  BY <1>3 DEF T
=============================================================================
