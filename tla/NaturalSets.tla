------------------------------ MODULE NaturalSets ------------------------------
(***************************************************************************)
(* Facts about sets of numbers that the proofs of several modules need.    *)
(***************************************************************************)
EXTENDS Integers, FiniteSetTheorems, WellFoundedInduction, TLAPS

\* A set of numbers that is not empty has a least element.
LEMMA Least ==
    ASSUME NEW S \in SUBSET Nat, S # {}
    PROVE  \E x \in S : \A y \in S : x <= y
<1>1. PICK x \in S : \A y \in S : <<y, x>> \notin OpToRel(<, Nat)
  BY WFMin, NatLessThanWellFounded, Zenon
<1>2. \A y \in S : ~ (y < x)
  BY <1>1, Zenon DEF OpToRel
<1> QED
  BY <1>2

\* One that is bounded as well has a greatest.
LEMMA Greatest ==
    ASSUME NEW S \in SUBSET Nat, S # {}, NEW n \in Nat, \A x \in S : x <= n
    PROVE  \E x \in S : \A y \in S : y <= x
<1> DEFINE Bounds == {b \in Nat : \A x \in S : x <= b}
<1>1. PICK b \in Bounds : \A c \in Bounds : b <= c
  BY Least
<1>2. CASE b \in S
  BY <1>2
<1>3. CASE b \notin S
  <2>1. PICK x \in S : TRUE
    OBVIOUS
  <2>2. \A y \in S : y <= b - 1
    BY <1>3
  <2>3. b - 1 \in Nat
    BY <2>1, <2>2
  <2>4. b - 1 \in Bounds
    BY <2>2, <2>3
  <2> QED
    BY <1>1, <2>4
<1> QED
  BY <1>2, <1>3

\* So has one that is finite: of the sets without a greatest element that are
\* not empty none is the smallest.
LEMMA FiniteGreatest ==
    ASSUME NEW S \in SUBSET Nat, S # {}, IsFiniteSet(S)
    PROVE  \E x \in S : \A y \in S : y <= x
<1> DEFINE Unbounded(T) == /\ T \in SUBSET Nat /\ T # {} /\ IsFiniteSet(T)
                           /\ ~\E x \in T : \A y \in T : y <= x
           Sizes == {Cardinality(T) : T \in {R \in SUBSET S : Unbounded(R)}}
<1>1. SUFFICES ASSUME Unbounded(S) PROVE FALSE
  OBVIOUS
<1>2. Sizes \in SUBSET Nat /\ Sizes # {}
  <2>1. \A T : Unbounded(T) => Cardinality(T) \in Nat
    BY FS_CardinalityType
  <2>2. S \in {R \in SUBSET S : Unbounded(R)}
    BY <1>1
  <2> HIDE DEF Unbounded
  <2> QED
    BY <2>1, <2>2
<1>3. PICK T \in SUBSET S : /\ Unbounded(T)
                            /\ \A R \in SUBSET S : Unbounded(R) => Cardinality(T) <= Cardinality(R)
  <2>1. PICK n \in Sizes : \A m \in Sizes : n <= m
    BY <1>2, Least
  <2>2. PICK T \in SUBSET S : Unbounded(T) /\ n = Cardinality(T)
    BY <2>1
  <2>3. \A R \in SUBSET S : Unbounded(R) => Cardinality(R) \in Sizes
    OBVIOUS
  <2> HIDE DEF Unbounded, Sizes
  <2> QED
    BY <2>1, <2>2, <2>3
<1>4. PICK x \in T : TRUE
  BY <1>3
<1> DEFINE R == T \ {x}
<1>5. /\ IsFiniteSet(R) /\ Cardinality(R) = Cardinality(T) - 1
      /\ Cardinality(T) \in Nat
  BY <1>3, FS_RemoveElement, FS_CardinalityType
<1>6. ~Unbounded(R)
  <2>1. Cardinality(R) < Cardinality(T)
    BY <1>5
  <2>2. R \in SUBSET S
    OBVIOUS
  <2> HIDE DEF Unbounded, R
  <2> QED
    BY <1>3, <1>5, <2>1, <2>2
<1>7. \E g \in T : \A y \in T : y <= g
  <2>0. T \subseteq Nat
    BY <1>3
  <2>1. CASE R = {}
    BY <1>4, <2>0, <2>1
  <2>2. CASE R # {}
    <3>1. PICK g \in R : \A y \in R : y <= g
      BY <1>3, <1>5, <1>6, <2>2
    <3>2. CASE x <= g
      BY <3>1, <3>2
    <3>3. CASE ~(x <= g)
      BY <2>0, <3>1, <3>3
    <3> QED
      BY <3>2, <3>3
  <2> QED
    BY <2>1, <2>2
<1> QED
  BY <1>3, <1>7

=============================================================================
