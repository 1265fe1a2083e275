----------------------------- MODULE Induction -----------------------------
(***************************************************************************)
(* Induction over the naturals and functions defined by recursion, stated  *)
(* of sets rather than of predicates and operators.                        *)
(***************************************************************************)
EXTENDS Integers, WellFoundedInduction, TLAPS

\* A non-empty set of naturals has a least element.
LEMMA LeastElement ==
  ASSUME NEW S \in SUBSET Nat, S # {}
  PROVE  \E x \in S : \A y \in S : x <= y
<1> DEFINE Less == {ss \in Nat \X Nat : ss[1] < ss[2]}
<1>1. IsWellFoundedOn(Less, Nat)
  BY NatLessThanWellFounded DEF OpToRel
<1>2. PICK x \in S : \A y \in S : ~(<<y, x>> \in Less)
  <2> HIDE DEF Less
  <2> QED
    BY <1>1, WFMin
<1>3. \A y \in S : ~(y < x)
  BY <1>2
<1> QED
  BY <1>3

\* What holds of zero, and of each number after one it holds of, holds of all.
LEMMA SetInduction ==
  ASSUME NEW S \in SUBSET Nat, 0 \in S, \A n \in S : n + 1 \in S
  PROVE  S = Nat
<1> SUFFICES ASSUME Nat \ S # {} PROVE FALSE
  OBVIOUS
<1>1. PICK x \in Nat \ S : \A y \in Nat \ S : x <= y
  BY LeastElement
<1>2. x - 1 \in S
  BY <1>1
<1>3. x = (x - 1) + 1
  OBVIOUS
<1> QED
  BY <1>1, <1>2, <1>3

\* What holds of zero, and with each number of an interval of the next, holds of all.
LEMMA IntervalInduction ==
  ASSUME NEW N \in Nat, NEW S, 0 \in S, \A i \in 1..N : i - 1 \in S => i \in S
  PROVE  \A i \in 0..N : i \in S
<1> DEFINE T == {n \in Nat : n <= N => n \in S}
<1>1. 0 \in T /\ \A n \in T : n + 1 \in T
  <2>1. ASSUME NEW n \in T, n + 1 <= N PROVE n + 1 \in S
    <3>1. n + 1 \in 1..N /\ (n + 1) - 1 = n /\ n \in S
      BY <2>1
    <3> QED
      BY <3>1
  <2> QED
    BY <2>1
<1>2. T = Nat
  <2> HIDE DEF T
  <2> QED
    BY <1>1, SetInduction DEF T
<1> QED
  BY <1>2

\* f starts with e, and each of its values follows from the one before by step.
Recurs(f, N, e, step) == f[0] = e /\ \A i \in 1..N : f[i] = step[<<f[i - 1], i>>]

Steps(N, V) == [V \X (1..N) -> V]
Runs(N, V)  == [0..N -> V]

\* There is such a function on every interval.
LEMMA FiniteRecursion ==
  ASSUME NEW N \in Nat, NEW V, NEW e \in V, NEW step \in Steps(N, V)
  PROVE  \E f \in Runs(N, V) : Recurs(f, N, e, step)
<1> USE DEF Recurs, Steps, Runs
<1> DEFINE Is(f, n) == f[0] = e /\ \A i \in 1..n : f[i] = step[<<f[i - 1], i>>]
           Good == {n \in Nat : n <= N => \E f \in [0..n -> V] : Is(f, n)}
<1>1. 0 \in Good
  <2>1. [i \in 0..0 |-> e] \in [0..0 -> V] /\ Is([i \in 0..0 |-> e], 0)
    OBVIOUS
  <2> QED
    BY <2>1
<1>2. ASSUME NEW n \in Good PROVE n + 1 \in Good
  <2> SUFFICES ASSUME n + 1 <= N PROVE \E f \in [0..(n + 1) -> V] : Is(f, n + 1)
    OBVIOUS
  <2>1. PICK f \in [0..n -> V] : Is(f, n)
    OBVIOUS
  <2> DEFINE last == step[<<f[n], n + 1>>]
             g == [i \in 0..(n + 1) |-> IF i <= n THEN f[i] ELSE last]
  <2>2. last \in V
    <3>1. <<f[n], n + 1>> \in V \X (1..N)
      OBVIOUS
    <3> QED
      BY <3>1
  <2>3. g \in [0..(n + 1) -> V] /\ g[n + 1] = last /\ \A i \in 0..n : g[i] = f[i]
    BY <2>2
  <2>4. Is(g, n + 1)
    <3> HIDE DEF g
    <3>1. g[0] = e /\ g[n + 1] = step[<<g[n], n + 1>>]
      BY <2>1, <2>3
    <3>2. ASSUME NEW i \in 1..n PROVE g[i] = step[<<g[i - 1], i>>]
      BY <2>1, <2>3
    <3>3. \A i \in 1..(n + 1) : i \in 1..n \/ (i = n + 1 /\ i - 1 = n)
      OBVIOUS
    <3> QED
      BY <3>1, <3>2, <3>3
  <2> QED
    <3> HIDE DEF g, Is
    <3> QED
      BY <2>3, <2>4
<1>3. Good = Nat
  <2> HIDE DEF Good
  <2> QED
    BY <1>1, <1>2, SetInduction DEF Good
<1>4. N \in Good
  <2> HIDE DEF Good
  <2> QED
    BY <1>3
<1> QED
  BY <1>4

\* What each value of a function on an interval hands on to the next, all have.
LEMMA RunTyped ==
  ASSUME NEW N \in Nat, NEW V, NEW f,
         f[0] \in V, \A i \in 1..N : f[i - 1] \in V => f[i] \in V
  PROVE  \A i \in 0..N : f[i] \in V
<1> DEFINE Good == {i \in 0..N : f[i] \in V}
<1>1. 0 \in Good /\ \A i \in 1..N : i - 1 \in Good => i \in Good
  OBVIOUS
<1>2. \A i \in 0..N : i \in Good
  <2> HIDE DEF Good
  <2> QED
    BY <1>1, IntervalInduction
<1> QED
  BY <1>2
=============================================================================
