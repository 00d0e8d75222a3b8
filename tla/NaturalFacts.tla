---------------------------- MODULE NaturalFacts ---------------------------
(***************************************************************************)
(* Least and greatest elements of sets of naturals, for the searches that  *)
(* the kernel's loops make through a table.                                *)
(***************************************************************************)
EXTENDS Integers, TLAPS, WellFoundedInduction

\* Every nonempty set of naturals has a least element.
LEMMA NatMin ==
  ASSUME NEW S \in SUBSET Nat, S # {}
  PROVE  \E m \in S : \A k \in S : m <= k
<1> DEFINE R == {ss \in Nat \X Nat : ss[1] < ss[2]}
<1>1. IsWellFoundedOn(R, Nat)
  BY NatLessThanWellFounded DEF OpToRel
<1>2. PICK m \in S : \A k \in S : ~ (<<k, m>> \in R)
  <2> HIDE DEF R
  <2> QED BY <1>1, WFMin
<1>3. \A k \in S : ~ (k < m)
  BY <1>2
<1> QED BY <1>3

\* Every nonempty bounded set of naturals has a greatest element.
LEMMA NatMax ==
  ASSUME NEW n \in Nat, NEW S \in SUBSET (0 .. n), S # {}
  PROVE  \E m \in S : \A k \in S : k <= m
<1> DEFINE T == {d \in 0 .. n : n - d \in S}
<1>1. PICK s \in S : TRUE
  OBVIOUS
<1>2. T \in SUBSET Nat /\ n - s \in T
  BY <1>1
<1>3. PICK d \in T : \A e \in T : d <= e
  <2> HIDE DEF T
  <2> QED BY <1>2, NatMin
<1>4. n - d \in S /\ d \in 0 .. n
  OBVIOUS
<1>5. ASSUME NEW k \in S PROVE k <= n - d
  <2>1. k \in 0 .. n /\ n - (n - k) = k /\ n - k \in 0 .. n
    OBVIOUS
  <2>2. n - k \in T
    BY <2>1
  <2>3. d <= n - k
    BY <1>3, <2>2
  <2> QED BY <2>1, <2>3, <1>4
<1> QED BY <1>4, <1>5
=============================================================================
