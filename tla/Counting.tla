------------------------------- MODULE Counting -------------------------------
(***************************************************************************)
(* Induction over the numbers up to one, and the functions that recursion  *)
(* over them defines.                                                      *)
(*                                                                         *)
(* What induction is over is a set, so that a lemma can be used with any   *)
(* property: the set of the numbers that have it.                          *)
(***************************************************************************)
EXTENDS Integers, WellFoundedInduction, TLAPS

\* A set of numbers that is not empty has a least one.
LEMMA LeastNumber ==
  ASSUME NEW T \in SUBSET Nat, T # {}
  PROVE  \E m \in T : \A k \in T : m <= k
<1> DEFINE R == {ss \in Nat \X Nat : ss[1] < ss[2]}
<1>1. IsWellFoundedOn(R, Nat)
  BY NatLessThanWellFounded DEF OpToRel
<1>2. PICK m \in T : \A k \in T : <<k, m>> \notin R
  <2> HIDE DEF R
  <2> QED
    BY <1>1, WFMin
<1>3. \A k \in T : ~(k < m)
  BY <1>2
<1> QED
  BY <1>2, <1>3

\* What holds of zero, and of each number after one of which it holds, holds up to n.
LEMMA CountUp ==
  ASSUME NEW n \in Nat, NEW T, 0 \in T, \A i \in 1..n : i - 1 \in T => i \in T
  PROVE  \A i \in 0..n : i \in T
<1> DEFINE Others == {i \in 0..n : i \notin T}
<1> SUFFICES ASSUME Others # {} PROVE FALSE
  OBVIOUS
<1>0. Others \in SUBSET Nat
  OBVIOUS
<1>1. PICK m \in Others : \A k \in Others : m <= k
  <2> HIDE DEF Others
  <2> QED
    BY <1>0, LeastNumber
<1>2. m \in 1..n /\ m - 1 \in 0..n /\ ~(m <= m - 1)
  BY <1>1
<1>3. m - 1 \in T
  BY <1>1, <1>2
<1> QED
  BY <1>1, <1>2, <1>3

\* Ways to go on, and what goes on in such a way.
Ways(n, X) == [1..n -> [X -> X]]
GoesOn(f, n, a, G) == f[0] = a /\ \A i \in 1..n : f[i] = G[i][f[i - 1]]

\* There is a function for each first value and each way to go on.
LEMMA Recursion ==
  ASSUME NEW n \in Nat, NEW X, NEW a \in X, NEW G \in Ways(n, X)
  PROVE  \E f \in [0..n -> X] : GoesOn(f, n, a, G)
<1> USE DEF Ways, GoesOn
<1> DEFINE Upto(m, f) == f[0] = a /\ \A i \in 1..m : f[i] = G[i][f[i - 1]]
           Some(m) == \E f \in [0..m -> X] : Upto(m, f)
           T == {m \in 0..n : Some(m)}
<1>1. Some(0)
  <2>1. [i \in 0..0 |-> a] \in [0..0 -> X] /\ Upto(0, [i \in 0..0 |-> a])
    OBVIOUS
  <2> QED
    BY <2>1
<1>2. ASSUME NEW m \in 1..n, Some(m - 1) PROVE Some(m)
  <2>1. PICK f \in [0..(m - 1) -> X] : Upto(m - 1, f)
    BY <1>2
  <2> DEFINE g == [i \in 0..m |-> IF i = m THEN G[m][f[m - 1]] ELSE f[i]]
  <2>2. f[m - 1] \in X /\ G[m] \in [X -> X]
    BY <2>1
  <2>3. g \in [0..m -> X]
    BY <2>1, <2>2
  <2>4. Upto(m, g)
    BY <2>1
  <2> HIDE DEF g, Upto
  <2> QED
    BY <2>3, <2>4
<1> HIDE DEF Some
<1>3. 0 \in T /\ \A i \in 1..n : i - 1 \in T => i \in T
  BY <1>1, <1>2
<1> HIDE DEF T
<1>4. \A i \in 0..n : i \in T
  BY <1>3, CountUp, Zenon
<1>5. n \in T
  BY <1>4
<1> QED
  BY <1>5 DEF T, Some

\* It has the values of what it is made of.
LEMMA Ranged ==
  ASSUME NEW n \in Nat, NEW X, NEW f, DOMAIN f = 0..n, f = [i \in DOMAIN f |-> f[i]],
         f[0] \in X, \A i \in 1..n : f[i - 1] \in X => f[i] \in X
  PROVE  f \in [0..n -> X]
<1> DEFINE T == {i \in 0..n : f[i] \in X}
<1>1. 0 \in T /\ \A i \in 1..n : i - 1 \in T => i \in T
  OBVIOUS
<1> HIDE DEF T
<1>2. \A i \in 0..n : i \in T
  BY <1>1, CountUp
<1>3. \A i \in 0..n : f[i] \in X
  BY <1>2 DEF T
<1> QED
  BY <1>3
=============================================================================
