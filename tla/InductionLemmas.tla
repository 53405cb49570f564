-------------------------- MODULE InductionLemmas ---------------------------
(***************************************************************************)
(* Induction over the natural numbers, for sets instead of predicates.  It *)
(* is what the proofs about the loader's walks need, which the properties  *)
(* define as recursive functions.                                          *)
(***************************************************************************)
EXTENDS Integers, FiniteSetTheorems, TLAPS

(* Every set of naturals has a smallest element: of the intervals from 0   *)
(* to its elements, one contains no other.                                 *)
LEMMA SmallestElement ==
  ASSUME NEW T \in SUBSET Nat, T # {}
  PROVE  \E x \in T : \A y \in T : x <= y
<1> DEFINE Intervals == {0 .. x : x \in T}
           Smaller   == StrictSubsetOrdering(Nat)
<1>1. Intervals \subseteq FiniteSubsetsOf(Nat)
  <2> SUFFICES ASSUME NEW x \in T PROVE 0 .. x \in FiniteSubsetsOf(Nat)
    OBVIOUS
  <2>1. IsFiniteSet(0 .. x) BY FS_Interval
  <2>2. 0 .. x \subseteq Nat OBVIOUS
  <2> QED BY <2>1, <2>2 DEF FiniteSubsetsOf
<1>2. Intervals # {} OBVIOUS
<1>3. IsWellFoundedOn(Smaller, FiniteSubsetsOf(Nat))
  BY FS_StrictSubsetOrderingWellFounded
<1>4. \E X \in Intervals : \A Y \in Intervals : <<Y, X>> \notin Smaller
  <2> HIDE DEF Intervals, Smaller
  <2> QED BY <1>1, <1>2, <1>3, WFMin
<1>5. PICK x \in T : \A y \in T : <<0 .. y, 0 .. x>> \notin Smaller
  BY <1>4
<1>6. ASSUME NEW y \in T, y < x PROVE FALSE
  <2>1. 0 .. y \subseteq 0 .. x /\ x \in 0 .. x /\ x \notin 0 .. y BY <1>6
  <2>2. 0 .. y # 0 .. x BY <2>1
  <2>3. 0 .. y \in SUBSET Nat /\ 0 .. x \in SUBSET Nat OBVIOUS
  <2>4. <<0 .. y, 0 .. x>> \in Smaller BY <2>1, <2>2, <2>3 DEF StrictSubsetOrdering
  <2> QED BY <1>5, <2>4
<1>7. \A y \in T : x <= y BY <1>6
<1> QED BY <1>7

(* A set that holds m, and with each number from m to below n its          *)
(* successor, holds all of them.                                           *)
LEMMA IntervalInduction ==
  ASSUME NEW m \in Nat, NEW n \in Nat, NEW S,
         m <= n => m \in S, \A k \in m .. n - 1 : k \in S => k + 1 \in S
  PROVE  m .. n \subseteq S
<1> SUFFICES ASSUME (m .. n) \ S # {} PROVE FALSE OBVIOUS
<1>1. (m .. n) \ S \in SUBSET Nat OBVIOUS
<1>2. PICK x \in (m .. n) \ S : \A y \in (m .. n) \ S : x <= y
  BY <1>1, SmallestElement
<1>3. x # m /\ x - 1 \in m .. n - 1 OBVIOUS
<1>4. x - 1 \in S BY <1>2, <1>3
<1>5. (x - 1) + 1 = x OBVIOUS
<1> QED BY <1>3, <1>4, <1>5

=============================================================================
