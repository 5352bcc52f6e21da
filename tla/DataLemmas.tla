----------------------------- MODULE DataLemmas ------------------------------
(***************************************************************************)
(* Induction and recursion, stated over sets and functions and not over    *)
(* operators, for the algorithms that the models compute with: the least   *)
(* element, induction over a set of naturals, a function defined by its    *)
(* value before, and maximal elements of a finite order.                   *)
(***************************************************************************)
EXTENDS Integers, Sequences, FiniteSets, FiniteSetTheorems, SequenceTheorems,
        WellFoundedInduction, TLAPS

\* Any nonempty set of naturals has a least element.
LEMMA LeastNatural ==
  ASSUME NEW T \in SUBSET Nat, T # {}
  PROVE  \E x \in T : \A y \in T : x <= y
<1> DEFINE R == OpToRel(<, Nat)
<1>1. IsWellFoundedOn(R, Nat)
  BY NatLessThanWellFounded
<1>2. \A x, y \in Nat : x < y => <<x, y>> \in R
  BY DEF OpToRel
<1> HIDE DEF R
<1>3. PICK x \in T : \A y \in T : ~(<<y, x>> \in R)
  BY <1>1, WFMin
<1>4. \A y \in T : ~(y < x) /\ y \in Nat /\ x \in Nat
  BY <1>2, <1>3
<1>5. \A y \in T : x <= y
  BY <1>4
<1> QED
  BY <1>5

\* Induction: a set that holds 0 and what follows each of its members.
LEMMA InductionOverNat ==
  ASSUME NEW H \in SUBSET Nat, 0 \in H, \A n \in H : n + 1 \in H
  PROVE  H = Nat
<1> SUFFICES ASSUME Nat \ H # {}
             PROVE  FALSE
  OBVIOUS
<1>1. PICK x \in Nat \ H : \A y \in Nat \ H : x <= y
  BY LeastNatural
<1>2. x # 0 /\ x - 1 \in Nat /\ x - 1 \in H
  BY <1>1
<1>3. (x - 1) + 1 = x
  BY <1>1
<1> QED
  BY <1>1, <1>2, <1>3

-----------------------------------------------------------------------------
(* Recursion: the values of a function up to m, each from the one before.   *)

Computes(g, S, base, step, m) ==
  /\ g \in [0..m -> S] /\ g[0] = base
  /\ \A k \in 0..(m - 1) : g[k + 1] = step[k][g[k]]

\* A value for each number up to m, each made from the one before, exists ...
LEMMA ComputationExists ==
  ASSUME NEW S, NEW base \in S, NEW step \in [Nat -> [S -> S]], NEW m \in Nat
  PROVE  \E g : Computes(g, S, base, step, m)
<1> DEFINE H == {n \in Nat : \E g : Computes(g, S, base, step, n)}
<1>1. 0 \in H
  <2>1. Computes([k \in 0..0 |-> base], S, base, step, 0)
    BY DEF Computes
  <2> QED
    BY <2>1
<1>2. ASSUME NEW n \in H
      PROVE  n + 1 \in H
  <2>1. PICK g : Computes(g, S, base, step, n)
    OBVIOUS
  <2> DEFINE h == [k \in 0..(n + 1) |-> IF k = n + 1 THEN step[n][g[n]] ELSE g[k]]
  <2>2. /\ \A k \in 0..n : g[k] \in S /\ h[k] = g[k]
        /\ g[0] = base /\ \A k \in 0..(n - 1) : g[k + 1] = step[k][g[k]]
    BY <2>1 DEF Computes
  <2>3. g[n] \in S /\ step[n][g[n]] \in S /\ h[n + 1] = step[n][g[n]]
    <3>1. n \in 0..n /\ n + 1 \in 0..(n + 1) /\ step[n] \in [S -> S]
      OBVIOUS
    <3>2. g[n] \in S
      BY <2>2, <3>1
    <3> QED
      BY <3>1, <3>2
  <2>4. h \in [0..(n + 1) -> S]
    <3>1. \A k \in 0..(n + 1) : k = n + 1 \/ k \in 0..n
      OBVIOUS
    <3>2. \A k \in 0..(n + 1) : h[k] \in S
      BY <2>2, <2>3, <3>1
    <3> QED
      BY <3>2
  <2>5. h[0] = base
    BY <2>2
  <2>6. ASSUME NEW k \in 0..n
        PROVE  h[k + 1] = step[k][h[k]]
    <3>1. CASE k = n
      BY <2>2, <2>3, <3>1
    <3>2. CASE k # n
      <4>1. k \in 0..(n - 1) /\ k + 1 \in 0..n
        BY <3>2
      <4> QED
        BY <2>2, <4>1
    <3> QED
      BY <3>1, <3>2
  <2> HIDE DEF h
  <2>7. (n + 1) - 1 = n
    OBVIOUS
  <2>8. Computes(h, S, base, step, n + 1)
    BY <2>4, <2>5, <2>6, <2>7 DEF Computes
  <2> QED
    BY <2>8
<1> HIDE DEF H
<1>3. H \in SUBSET Nat
  BY DEF H
<1>4. H = Nat
  BY <1>1, <1>2, <1>3, InductionOverNat
<1> QED
  BY <1>4 DEF H

\* ... is unique ...
LEMMA ComputationIsUnique ==
  ASSUME NEW S, NEW base, NEW step, NEW m \in Nat, NEW n \in Nat, NEW g, NEW h,
         Computes(g, S, base, step, m), Computes(h, S, base, step, n),
         NEW i \in 0..m, i \in 0..n
  PROVE  g[i] = h[i]
<1> DEFINE H == {k \in Nat : k \in 0..m /\ k \in 0..n => g[k] = h[k]}
<1>1. 0 \in H
  BY DEF Computes
<1>2. ASSUME NEW k \in H
      PROVE  k + 1 \in H
  <2> SUFFICES ASSUME k + 1 \in 0..m, k + 1 \in 0..n
               PROVE  g[k + 1] = h[k + 1]
    OBVIOUS
  <2>1. k \in 0..(m - 1) /\ k \in 0..(n - 1) /\ k \in 0..m /\ k \in 0..n
    OBVIOUS
  <2>2. g[k] = h[k]
    BY <2>1
  <2> QED
    BY <2>1, <2>2 DEF Computes
<1> HIDE DEF H
<1>3. H \in SUBSET Nat
  BY DEF H
<1>4. H = Nat
  BY <1>1, <1>2, <1>3, InductionOverNat
<1> QED
  BY <1>4 DEF H

\* f starts at base and goes on by step.
Follows(f, base, step) == f[0] = base /\ \A n \in Nat : f[n + 1] = step[n][f[n]]

\* ... and so does a function of all naturals.
LEMMA Recursion ==
  ASSUME NEW S, NEW base \in S, NEW step \in [Nat -> [S -> S]]
  PROVE  \E f \in [Nat -> S] : Follows(f, base, step)
<1> DEFINE upTo(n) == CHOOSE g : Computes(g, S, base, step, n)
           f == [n \in Nat |-> upTo(n)[n]]
<1>1. \A n \in Nat : Computes(upTo(n), S, base, step, n)
  BY ComputationExists
<1> HIDE DEF upTo
<1>2. f \in [Nat -> S]
  <2> SUFFICES ASSUME NEW n \in Nat
               PROVE  upTo(n)[n] \in S
    OBVIOUS
  <2> QED
    BY <1>1 DEF Computes
<1>3. f[0] = base
  BY <1>1 DEF Computes
<1>4. ASSUME NEW n \in Nat
      PROVE  f[n + 1] = step[n][f[n]]
  <2>1. Computes(upTo(n), S, base, step, n) /\ Computes(upTo(n + 1), S, base, step, n + 1)
    BY <1>1
  <2>2. n \in 0..n /\ n \in 0..(n + 1) /\ n \in 0..((n + 1) - 1) /\ n + 1 \in Nat
    OBVIOUS
  <2>3. upTo(n + 1)[n] = upTo(n)[n]
    BY <2>1, <2>2, ComputationIsUnique
  <2>4. upTo(n + 1)[n + 1] = step[n][upTo(n + 1)[n]]
    BY <2>1, <2>2 DEF Computes
  <2> QED
    BY <2>2, <2>3, <2>4
<1> QED
  BY <1>2, <1>3, <1>4 DEF Follows

\* The same up to a bound, for a function that is defined up to it.
LEMMA BoundedInduction ==
  ASSUME NEW m \in Nat, NEW H, 0 \in H, \A k \in 1..m : k - 1 \in H => k \in H
  PROVE  \A k \in 0..m : k \in H
<1> DEFINE G == {k \in Nat : k \in 0..m => k \in H}
<1>1. 0 \in G
  OBVIOUS
<1>2. ASSUME NEW k \in G
      PROVE  k + 1 \in G
  <2> SUFFICES ASSUME k + 1 \in 0..m
               PROVE  k + 1 \in H
    OBVIOUS
  <2>1. k + 1 \in 1..m /\ k \in 0..m /\ (k + 1) - 1 = k
    OBVIOUS
  <2> QED
    BY <2>1
<1> HIDE DEF G
<1>3. G = Nat
  <2>1. G \in SUBSET Nat
    BY DEF G
  <2> QED
    BY <1>1, <1>2, <2>1, InductionOverNat
<1> QED
  BY <1>3 DEF G

Iterates(g, S, base, step, m) ==
  g \in [0..m -> S] /\ g[0] = base /\ \A k \in 1..m : g[k] = step[k][g[k - 1]]

\* The same for as many values as there are.
LEMMA BoundedRecursion ==
  ASSUME NEW S, NEW base \in S, NEW m \in Nat, NEW step,
         \A k \in 1..m : \A s \in S : step[k][s] \in S
  PROVE  \E g : Iterates(g, S, base, step, m)
<1> DEFINE next == [k \in Nat |-> [s \in S |-> IF k + 1 \in 1..m THEN step[k + 1][s] ELSE s]]
<1>1. next \in [Nat -> [S -> S]]
  OBVIOUS
<1> HIDE DEF next
<1>2. PICK g : Computes(g, S, base, next, m)
  BY <1>1, ComputationExists
<1>3. g \in [0..m -> S] /\ g[0] = base
  BY <1>2 DEF Computes
<1>4. ASSUME NEW k \in 1..m
      PROVE  g[k] = step[k][g[k - 1]]
  <2>1. k - 1 \in 0..(m - 1) /\ k - 1 \in 0..m /\ (k - 1) + 1 = k /\ k - 1 \in Nat
    OBVIOUS
  <2>2. g[(k - 1) + 1] = next[k - 1][g[k - 1]] /\ g[k - 1] \in S
    BY <1>2, <1>3, <2>1 DEF Computes
  <2> QED
    BY <2>1, <2>2 DEF next
<1> QED
  BY <1>3, <1>4 DEF Iterates

-----------------------------------------------------------------------------
(* Arithmetic.                                                              *)

\* A quotient and a remainder are naturals.
LEMMA Division ==
  ASSUME NEW x \in Nat, NEW d \in Nat, d > 0
  PROVE  x \div d \in Nat /\ x % d \in Nat
OBVIOUS

\* A quotient is less than what is divided.
LEMMA QuotientShrinks ==
  ASSUME NEW x \in Nat, NEW d \in Nat, d > 1, x >= d
  PROVE  x \div d \in 0..(x - 1)
OBVIOUS

-----------------------------------------------------------------------------
(* Finite orders.                                                           *)

\* The element with the fewest above it has none.
LEMMA MaximalElement ==
  ASSUME NEW T, IsFiniteSet(T), T # {}, NEW R,
         \A x \in T : <<x, x>> \notin R,
         \A x, y, z \in T : <<x, y>> \in R /\ <<y, z>> \in R => <<x, z>> \in R
  PROVE  \E x \in T : \A y \in T : <<x, y>> \notin R
<1> DEFINE above(x) == {y \in T : <<x, y>> \in R}
           numbers == {Cardinality(above(x)) : x \in T}
<1>1. \A x \in T : IsFiniteSet(above(x)) /\ Cardinality(above(x)) \in Nat
  BY FS_Subset, FS_CardinalityType
<1> HIDE DEF above
<1>2. numbers \in SUBSET Nat /\ numbers # {}
  BY <1>1
<1> USE DEF above
<1>3. PICK n \in numbers : \A m \in numbers : n <= m
  BY <1>2, LeastNatural
<1>4. PICK x \in T : n = Cardinality(above(x))
  BY <1>3
<1>5. ASSUME NEW y \in T, <<x, y>> \in R
      PROVE  FALSE
  <2>1. above(y) \subseteq above(x) /\ y \in above(x) /\ y \notin above(y)
    BY <1>5
  <2>2. Cardinality(above(y)) < Cardinality(above(x))
    <3>1. IsFiniteSet(above(x)) /\ above(y) \in SUBSET above(x) /\ above(x) # above(y)
      BY <1>1, <2>1
    <3> HIDE DEF above
    <3>2. /\ Cardinality(above(y)) <= Cardinality(above(x))
          /\ Cardinality(above(y)) = Cardinality(above(x)) => above(x) = above(y)
      BY <3>1, FS_Subset
    <3>3. Cardinality(above(y)) \in Nat /\ Cardinality(above(x)) \in Nat
      BY <1>1
    <3> QED
      BY <3>1, <3>2, <3>3
  <2>3. Cardinality(above(y)) \in numbers
    OBVIOUS
  <2>4. n <= Cardinality(above(y)) /\ n \in Nat /\ Cardinality(above(y)) \in Nat
    BY <1>1, <1>2, <1>3, <2>3
  <2> QED
    BY <1>4, <2>2, <2>4
<1> QED
  BY <1>5

\* A finite set of integers that is not empty has a greatest.
LEMMA GreatestInteger ==
  ASSUME NEW T \in SUBSET Int, IsFiniteSet(T), T # {}
  PROVE  \E x \in T : \A y \in T : y <= x
<1> DEFINE R == {p \in T \X T : p[1] < p[2]}
<1>1. \A x, y \in T : <<x, y>> \in R <=> x < y
  OBVIOUS
<1> HIDE DEF R
<1>2. /\ \A x \in T : <<x, x>> \notin R
      /\ \A x, y, z \in T : <<x, y>> \in R /\ <<y, z>> \in R => <<x, z>> \in R
  BY <1>1
<1>3. PICK x \in T : \A y \in T : <<x, y>> \notin R
  BY <1>2, MaximalElement
<1>4. ASSUME NEW y \in T
      PROVE  y <= x
  <2>1. ~(x < y) /\ x \in Int /\ y \in Int
    BY <1>1, <1>3
  <2> QED
    BY <2>1
<1> QED
  BY <1>4
=============================================================================
