----------------------------- MODULE NaturalOrder -----------------------------
(***************************************************************************)
(* Least and greatest numbers of a set, and induction over the naturals    *)
(* stated for sets.  The library's induction theorems have an operator as  *)
(* parameter; the minimum principle for well-founded relations speaks of   *)
(* sets only, so the facts below follow from that one.                     *)
(***************************************************************************)
EXTENDS Integers, WellFoundedInduction, TLAPS

\* A set of natural numbers that is not empty has a least element.
LEMMA LeastElement ==
  ASSUME NEW T \in SUBSET Nat, T # {}
  PROVE  \E x \in T : \A y \in T : x <= y
<1> DEFINE R == OpToRel(<, Nat)
<1>1. IsWellFoundedOn(R, Nat)
  BY NatLessThanWellFounded
<1>2. \A x, y \in Nat : y < x => <<y, x>> \in R
  BY DEF OpToRel
<1> HIDE DEF R
<1>3. PICK x \in T : \A y \in T : ~ (<<y, x>> \in R)
  BY <1>1, WFMin
<1>4. \A y \in T : ~ (y < x)
  BY <1>2, <1>3
<1> QED
  BY <1>4

\* A bounded one has a greatest element: the one whose distance from the bound is
\* the least.
LEMMA GreatestElement ==
  ASSUME NEW T \in SUBSET Nat, T # {}, NEW n \in Nat, \A y \in T : y <= n
  PROVE  \E x \in T : \A y \in T : x >= y
<1> DEFINE U == {k \in Nat : n - k \in T}
<1>1. PICK t \in T : TRUE
  OBVIOUS
<1>2. n - t \in U
  BY <1>1
<1>3. PICK k \in U : \A y \in U : k <= y
  BY <1>2, LeastElement
<1>4. \A y \in T : n - y \in U
  OBVIOUS
<1> QED
  BY <1>3, <1>4

\* Induction: a set of natural numbers with 0 and every successor is all of
\* them.
LEMMA InductionOverNat ==
  ASSUME NEW T \in SUBSET Nat, 0 \in T, \A n \in T : n + 1 \in T
  PROVE  T = Nat
<1> SUFFICES ASSUME Nat \ T # {} PROVE FALSE
  OBVIOUS
<1>1. PICK x \in Nat \ T : \A y \in Nat \ T : x <= y
  BY LeastElement
<1>2. x - 1 \in T
  BY <1>1
<1> QED
  BY <1>1, <1>2

\* Induction up to a number.
LEMMA InductionUpTo ==
  ASSUME NEW m \in Nat, NEW T, 0 \in T,
         \A n \in 1..m : n - 1 \in T => n \in T
  PROVE  \A n \in 0..m : n \in T
<1> DEFINE U == {n \in Nat : n \in 0..m => n \in T}
<1>1. 0 \in U
  OBVIOUS
<1>2. ASSUME NEW n \in U PROVE n + 1 \in U
  <2> SUFFICES ASSUME n + 1 \in 0..m PROVE n + 1 \in T
    OBVIOUS
  <2>1. n + 1 \in 1..m /\ n \in 0..m /\ (n + 1) - 1 = n
    OBVIOUS
  <2> QED
    BY <2>1
<1>3. U = Nat
  <2>1. U \in SUBSET Nat
    OBVIOUS
  <2> HIDE DEF U
  <2> QED
    BY <1>1, <1>2, <2>1, InductionOverNat
<1> QED
  BY <1>3

\* What the m turns of a loop do to the values in V.
Turns(m, V) == [1..m -> [V -> V]]

\* g[n] is what the first n turns of a loop have made of a.
Loop(m, a, step, g) == g = [n \in 0..m |-> IF n = 0 THEN a ELSE step[n][g[n - 1]]]

\* A loop of m turns computes something.
LEMMA LoopComputes ==
  ASSUME NEW m \in Nat, NEW V, NEW a \in V, NEW step \in Turns(m, V)
  PROVE  \E g : (\A n \in 0..m : g[n] \in V) /\ Loop(m, a, step, g)
<1> DEFINE Runs(l, g) == g[0] = a /\ \A n \in 1..l : g[n] = step[n][g[n - 1]]
           T == {l \in 0..m : \E g \in [0..l -> V] : Runs(l, g)}
<1> USE DEF Turns
<1>1. 0 \in T
  <2> DEFINE g == [n \in 0..0 |-> a]
  <2>1. g \in [0..0 -> V] /\ Runs(0, g) /\ 0 \in 0..m
    OBVIOUS
  <2> HIDE DEF Runs, g
  <2> QED
    BY <2>1
<1>2. ASSUME NEW l \in 1..m, l - 1 \in T PROVE l \in T
  <2>1. PICK g \in [0..(l - 1) -> V] : Runs(l - 1, g)
    BY <1>2
  <2> DEFINE h == [n \in 0..l |-> IF n = l THEN step[l][g[l - 1]] ELSE g[n]]
  <2>2. \A n \in 0..l : n = l \/ n \in 0..(l - 1)
    OBVIOUS
  <2>3. g[l - 1] \in V /\ step[l][g[l - 1]] \in V
    OBVIOUS
  <2>4. h \in [0..l -> V]
    BY <2>2, <2>3
  <2>5. /\ h[0] = g[0] /\ h[l] = step[l][h[l - 1]]
        /\ \A n \in 1..(l - 1) : h[n] = g[n] /\ h[n - 1] = g[n - 1]
    OBVIOUS
  <2>6. \A n \in 1..l : n = l \/ n \in 1..(l - 1)
    OBVIOUS
  <2> HIDE DEF h
  <2>7. Runs(l, h)
    BY <2>1, <2>5, <2>6
  <2> HIDE DEF Runs
  <2> QED
    BY <2>4, <2>7
<1>3. m \in T
  <2> HIDE DEF T
  <2>1. \A n \in 0..m : n \in T
    BY <1>1, <1>2, InductionUpTo
  <2> QED
    BY <2>1
<1>4. PICK g \in [0..m -> V] : Runs(m, g)
  BY <1>3
<1>5. \A n \in 0..m : g[n] = IF n = 0 THEN a ELSE step[n][g[n - 1]]
  BY <1>4
<1>6. Loop(m, a, step, g)
  BY <1>5 DEF Loop
<1> QED
  BY <1>6
==============================================================================
