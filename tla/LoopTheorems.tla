---------------------------- MODULE LoopTheorems ----------------------------
(***************************************************************************)
(* What the proofs about loops share. A loop is written as a recursive      *)
(* function of the number of its turns: it starts with d, and its n-th turn *)
(* makes step[n] of what the turns before have made.                        *)
(*                                                                         *)
(* What n turns have done is proved by induction on n. The principle is     *)
(* stated for a set of numbers in place of a predicate.                     *)
(***************************************************************************)
EXTENDS Naturals, WellFoundedInduction, TLAPS

-----------------------------------------------------------------------------
\* A set with 0, and with n + 1 for each n of it, has all natural numbers.
LEMMA NaturalSet ==
  ASSUME NEW S, 0 \in S, \A n \in Nat : n \in S => n + 1 \in S
  PROVE  Nat \subseteq S
<1> DEFINE R == OpToRel(<, Nat)
           T == Nat \ S
<1>1. IsWellFoundedOn(R, Nat)
  BY NatLessThanWellFounded
<1>2. \A x, y \in Nat : y < x => <<y, x>> \in R
  BY DEF OpToRel
<1> HIDE DEF R
<1>3. SUFFICES ASSUME T # {} PROVE FALSE
  OBVIOUS
<1>4. PICK x \in T : \A y \in T : ~ (<<y, x>> \in R)
  BY <1>1, <1>3, WFMin
<1>5. x \in Nat /\ x # 0
  OBVIOUS
<1>6. x - 1 \in Nat /\ x - 1 < x
  BY <1>5
<1>7. <<x - 1, x>> \in R
  BY <1>2, <1>5, <1>6
<1>8. x - 1 \in S
  BY <1>4, <1>6, <1>7
<1> QED
  BY <1>5, <1>6, <1>8

\* What holds of 0 and, up to N, of the next number, holds up to N.
LEMMA UpTo ==
  ASSUME NEW N \in Nat, NEW S, 0 \in S,
         \A n \in 0 .. N - 1 : n \in S => n + 1 \in S
  PROVE  0 .. N \subseteq S
<1> DEFINE T == {n \in Nat : n <= N => n \in S}
<1>1. 0 \in T /\ \A n \in Nat : n \in T => n + 1 \in T
  OBVIOUS
<1>2. Nat \subseteq T
  <2> HIDE DEF T
  <2> QED BY <1>1, NaturalSet
<1> QED BY <1>2

\* The function that starts with d and makes the n-th step from n - 1 to n.
Iterates(f, D, d, N, step) ==
    /\ f \in [0 .. N -> D]
    /\ f[0] = d
    /\ \A n \in 1 .. N : f[n] = step[n][f[n - 1]]

CanIterate(D, d, N, step) == \E f : Iterates(f, D, d, N, step)

\* Such a function exists, for every loop whose turns stay within D: the recursive
\* definition of the loop, of which TLA+ only says that it is chosen, is one.
LEMMA Iteration ==
  ASSUME NEW D, NEW d \in D, NEW N \in Nat, NEW step \in [1 .. N -> [D -> D]]
  PROVE  CanIterate(D, d, N, step)
<1> DEFINE S == {k \in 0 .. N : CanIterate(D, d, k, step)}
<1>1. 0 \in S
  <2> DEFINE f == [n \in 0 .. 0 |-> d]
  <2>1. f \in [0 .. 0 -> D] /\ f[0] = d /\ 1 .. 0 = {}
    OBVIOUS
  <2>2. Iterates(f, D, d, 0, step)
    BY <2>1 DEF Iterates
  <2> HIDE DEF f
  <2> QED BY <2>2 DEF CanIterate
<1>2. ASSUME NEW k \in 0 .. N - 1, k \in S PROVE k + 1 \in S
  <2>1. PICK f : Iterates(f, D, d, k, step)
    BY <1>2 DEF CanIterate
  <2> DEFINE g == [n \in 0 .. k + 1 |-> IF n <= k THEN f[n] ELSE step[k + 1][f[k]]]
  <2>2. step[k + 1][f[k]] \in D
    <3>1. k + 1 \in 1 .. N /\ f[k] \in D
      BY <2>1 DEF Iterates
    <3> QED BY <3>1
  <2>3. g \in [0 .. k + 1 -> D] /\ g[0] = d
    BY <2>1, <2>2 DEF Iterates
  <2>4. \A n \in 1 .. k + 1 : g[n] = step[n][g[n - 1]]
    <3> SUFFICES ASSUME NEW n \in 1 .. k + 1 PROVE g[n] = step[n][g[n - 1]]
      OBVIOUS
    <3>1. CASE n = k + 1
      <4>1. g[k] = f[k] /\ g[k + 1] = step[k + 1][f[k]] /\ n - 1 = k
        BY <3>1
      <4> QED BY <3>1, <4>1
    <3>2. CASE n \in 1 .. k
      BY <3>2, <2>1 DEF Iterates
    <3> QED BY <3>1, <3>2
  <2>5. Iterates(g, D, d, k + 1, step)
    BY <2>3, <2>4 DEF Iterates
  <2> HIDE DEF g
  <2> QED BY <2>5 DEF CanIterate
<1>3. 0 .. N \subseteq S
  <2> HIDE DEF S
  <2> QED BY <1>1, <1>2, UpTo
<1> QED BY <1>3
=============================================================================
