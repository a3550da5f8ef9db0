---------------------------- MODULE NumberLemmas ----------------------------
(***************************************************************************)
(* Facts about sets of numbers that the proofs about several modules use.  *)
(***************************************************************************)
EXTENDS Naturals, FiniteSetTheorems, TLAPS

\* A nonempty set of natural numbers has a least element.
LEMMA LeastNatural ==
  ASSUME NEW S, S \subseteq Nat, S # {}
  PROVE  \E m \in S : \A k \in S : m <= k
<1>1. \E m \in S : \A k \in S : ~(<<k, m>> \in OpToRel(<, Nat))
  BY WFMin, NatLessThanWellFounded
<1>2. \A k, m \in S : ~(<<k, m>> \in OpToRel(<, Nat)) => m <= k
  BY DEF OpToRel
<1>3. QED
  BY <1>1, <1>2

\* A function into the natural numbers takes a greatest value on a nonempty
\* finite set: where the fewest others are greater.
LEMMA GreatestValue ==
  ASSUME NEW S, IsFiniteSet(S), S # {}, NEW f \in [S -> Nat]
  PROVE  \E m \in S : \A k \in S : f[k] <= f[m]
<1> DEFINE Above(m) == {k \in S : f[k] > f[m]}
           sizes == {Cardinality(Above(m)) : m \in S}
<1>1. \A m \in S : IsFiniteSet(Above(m)) /\ Cardinality(Above(m)) \in Nat
  BY FS_Subset, FS_CardinalityType
<1>2. PICK m \in S : \A k \in S : Cardinality(Above(m)) <= Cardinality(Above(k))
  <2>1. sizes \subseteq Nat /\ sizes # {}
    BY <1>1
  <2>2. PICK n \in sizes : \A k \in sizes : n <= k
    <3> HIDE DEF sizes
    <3> QED BY <2>1, LeastNatural
  <2>3. PICK m \in S : n = Cardinality(Above(m))
    OBVIOUS
  <2>4. \A k \in S : Cardinality(Above(k)) \in sizes
    OBVIOUS
  <2>5. QED
    <3> HIDE DEF sizes, Above
    <3> QED BY <2>2, <2>3, <2>4
<1>3. ASSUME NEW k \in S, f[k] > f[m] PROVE FALSE
  <2>1. Above(k) \subseteq Above(m) /\ k \in Above(m) /\ k \notin Above(k)
    BY <1>3
  <2>2. Cardinality(Above(k)) <= Cardinality(Above(m))
    BY <1>1, <2>1, FS_Subset
  <2>3. Cardinality(Above(k)) # Cardinality(Above(m))
    BY <1>1, <2>1, FS_Subset
  <2>4. QED
    BY <1>1, <1>2, <2>2, <2>3
<1>4. QED
  BY <1>3

\* Division by a positive number.
LEMMA Quotient ==
  ASSUME NEW D \in Nat \ {0}, NEW s \in Nat
  PROVE  s \div D \in Nat /\ D * (s \div D) <= s /\ s < D * (s \div D) + D
OBVIOUS

LEMMA Multiples ==
  ASSUME NEW D \in Nat \ {0}, NEW a \in Nat, NEW b \in Nat, a < b
  PROVE  D * a + D <= D * b
<1>1. D * (a + 1) <= D * b
  OBVIOUS
<1>2. D * (a + 1) = D * a + D
  OBVIOUS
<1>3. QED
  BY <1>1, <1>2

LEMMA QuotientGrows ==
  ASSUME NEW D \in Nat \ {0}, NEW s \in Nat, NEW t \in Nat, s <= t
  PROVE  s \div D <= t \div D
OBVIOUS

\* A quotient exceeds d from the next multiple of the divisor on.
LEMMA QuotientBound ==
  ASSUME NEW D \in Nat \ {0}, NEW s \in Nat, NEW d \in Nat
  PROVE  s \div D > d <=> s >= D * d + D
<1> DEFINE q == s \div D
<1>1. q \in Nat /\ D * q <= s /\ s < D * q + D
  BY Quotient
<1> HIDE DEF q
<1>2. q > d => D * d + D <= D * q
  BY <1>1, Multiples
<1>3. ~ (q > d) => D * q <= D * d
  BY <1>1
<1>4. D * q \in Nat /\ D * d \in Nat
  BY <1>1
<1>5. QED
  BY <1>1, <1>2, <1>3, <1>4 DEF q
=============================================================================
