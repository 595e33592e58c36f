------------------------------ MODULE Extremes ------------------------------
(***************************************************************************)
(* Sets of integers have least and greatest elements where the models take *)
(* Min and Max of one: among discounts, stages of a ladder, places in a    *)
(* conversation and the strengths of its signals.                          *)
(***************************************************************************)
EXTENDS Integers, FiniteSets, FiniteSetsExt, FiniteSetTheorems, WellFoundedInduction, TLAPS

\* A set of integers that is bounded has a largest element.
LEMMA Greatest ==
    ASSUME NEW S \in SUBSET Int, S # {}, NEW b \in Int, \A x \in S : x <= b
    PROVE Max(S) \in S /\ \A y \in S : y <= Max(S)
<1> DEFINE T == {n \in Nat : b - n \in S}
<1>1. T # {}
  <2>1. PICK x \in S : TRUE
    OBVIOUS
  <2>2. x \in Int /\ b - x \in Nat /\ b - (b - x) = x
    BY <2>1
  <2>3. b - x \in T
    BY <2>1, <2>2
  <2> QED BY <2>3
<1>2. PICK m \in T : \A n \in T : ~(<<n, m>> \in OpToRel(<, Nat))
  BY <1>1, NatLessThanWellFounded, WFMin
<1>3. m \in Nat /\ b - m \in S
  BY <1>2
<1>4. \A y \in S : y <= b - m
  <2> TAKE y \in S
  <2>1. y \in Int /\ b - y \in Nat /\ b - (b - y) = y
    OBVIOUS
  <2>2. b - y \in T
    BY <2>1
  <2>3. ~(b - y < m)
    BY <1>2, <1>3, <2>1, <2>2 DEF OpToRel
  <2> QED BY <1>3, <2>1, <2>3
<1>5. \E x \in S : \A y \in S : x >= y
  BY <1>3, <1>4
<1>6. Max(S) \in S /\ \A y \in S : Max(S) >= y
  BY <1>5 DEF Max
<1> QED BY <1>6

\* A set of naturals has a least element.
LEMMA Least ==
    ASSUME NEW S \in SUBSET Nat, S # {}
    PROVE Min(S) \in S /\ \A y \in S : Min(S) <= y
<1>1. PICK m \in S : \A n \in S : ~(<<n, m>> \in OpToRel(<, Nat))
  BY NatLessThanWellFounded, WFMin
<1>2. \A n \in S : m <= n
  <2> TAKE n \in S
  <2>1. n \in Nat /\ m \in Nat
    OBVIOUS
  <2>2. ~(n < m)
    BY <1>1, <2>1 DEF OpToRel
  <2> QED BY <2>1, <2>2
<1>3. \E x \in S : \A y \in S : x <= y
  BY <1>2
<1> QED BY <1>3 DEF Min

\* A finite set of naturals is bounded.
LEMMA FiniteBounded ==
    ASSUME NEW S \in SUBSET Nat, IsFiniteSet(S)
    PROVE \E b \in Nat : \A x \in S : x <= b
<1> DEFINE Unbounded(T) == \A b \in Nat : \E x \in T : ~(x <= b)
           K == {n \in Nat : \E T \in SUBSET Nat :
                    IsFiniteSet(T) /\ Cardinality(T) = n /\ Unbounded(T)}
<1> SUFFICES ASSUME Unbounded(S) PROVE FALSE
  OBVIOUS
<1>1. Cardinality(S) \in K
  BY FS_CardinalityType
<1>2. PICK m \in K : \A n \in K : ~(<<n, m>> \in OpToRel(<, Nat))
  BY <1>1, NatLessThanWellFounded, WFMin
<1>3. PICK T \in SUBSET Nat : IsFiniteSet(T) /\ Cardinality(T) = m /\ Unbounded(T)
  BY <1>2
<1>4. PICK x \in T : TRUE
  BY <1>3
<1> DEFINE U == T \ {x}
<1>5. IsFiniteSet(U) /\ Cardinality(U) = m - 1 /\ m \in Nat /\ Cardinality(U) \in Nat
  <2>1. IsFiniteSet(U) /\ Cardinality(U) = m - 1
    BY <1>3, <1>4, FS_RemoveElement
  <2>2. Cardinality(U) \in Nat
    BY <2>1, FS_CardinalityType
  <2> QED BY <1>2, <2>1, <2>2
<1>6. m - 1 \notin K
  <2>1. m - 1 \in Nat /\ m - 1 < m
    BY <1>5
  <2>2. <<m - 1, m>> \in OpToRel(<, Nat)
    BY <1>5, <2>1 DEF OpToRel
  <2> HIDE DEF K
  <2> QED BY <1>2, <2>2
<1>7. ~Unbounded(U)
  BY <1>5, <1>6
<1>8. PICK b \in Nat : \A y \in U : y <= b
  BY <1>7
<1>9. x \in Nat
  BY <1>4
<1> DEFINE c == IF x <= b THEN b ELSE x
<1>10. c \in Nat /\ \A y \in T : y <= c
  BY <1>8, <1>9
<1> QED BY <1>3, <1>10
=============================================================================
