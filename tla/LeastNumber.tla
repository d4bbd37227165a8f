----------------------------- MODULE LeastNumber -----------------------------
(***************************************************************************)
(* Induction without an operator as a parameter: a set of natural numbers  *)
(* that is not empty has a least one.  A fact about all numbers is proved  *)
(* of the least number it fails for.                                       *)
(***************************************************************************)
EXTENDS Integers, FiniteSetTheorems, TLAPS

\* The intervals up to the members of the set are finite sets, of which one has
\* no other below it.
THEOREM LeastOfNumbers ==
  ASSUME NEW S \in SUBSET Nat, S # {}
  PROVE  \E n \in S : \A m \in S : n <= m
<1> DEFINE UpTo == {0 .. m : m \in S}
           R == StrictSubsetOrdering(Nat)
<1>1. UpTo \subseteq FiniteSubsetsOf(Nat) /\ UpTo # {}
  <2>1. \A m \in S : IsFiniteSet(0 .. m)
    BY FS_Interval
  <2>2. \A m \in S : 0 .. m \subseteq Nat
    OBVIOUS
  <2> QED BY <2>1, <2>2 DEF FiniteSubsetsOf
<1>2. IsWellFoundedOn(R, FiniteSubsetsOf(Nat))
  BY FS_StrictSubsetOrderingWellFounded
<1> HIDE DEF UpTo
<1>3. PICK x \in UpTo : \A y \in UpTo : ~(<<y, x>> \in R)
  BY <1>1, <1>2, WFMin
<1> USE DEF UpTo
<1>4. PICK n \in S : x = 0 .. n
  OBVIOUS
<1>5. ASSUME NEW m \in S, m < n PROVE FALSE
  <2>1. 0 .. m \in UpTo /\ 0 .. m \subseteq 0 .. n /\ 0 .. m # 0 .. n
    BY <1>5
  <2>2. <<0 .. m, 0 .. n>> \in R
    BY <2>1 DEF StrictSubsetOrdering
  <2> QED BY <1>3, <1>4, <2>1, <2>2
<1> QED BY <1>5

\* The same for the subsets of a finite set: what fails for one of them fails
\* for one whose own parts are all right.
LEMMA SmallestOfSets ==
  ASSUME NEW D, IsFiniteSet(D), NEW Bad \in SUBSET (SUBSET D), Bad # {}
  PROVE  \E S \in Bad : \A x \in S : S \ {x} \notin Bad
<1> DEFINE Sizes == {Cardinality(S) : S \in Bad}
<1>1. \A S \in Bad : IsFiniteSet(S) /\ Cardinality(S) \in Nat
  BY FS_Subset, FS_CardinalityType
<1>2. Sizes \in SUBSET Nat /\ Sizes # {}
  BY <1>1
<1> HIDE DEF Sizes
<1>3. PICK n \in Sizes : \A m \in Sizes : n <= m
  BY <1>2, LeastOfNumbers
<1>4. PICK S \in Bad : n = Cardinality(S)
  BY DEF Sizes
<1>5. ASSUME NEW x \in S, S \ {x} \in Bad PROVE FALSE
  <2>1. Cardinality(S \ {x}) = Cardinality(S) - 1
    BY <1>1, FS_RemoveElement
  <2>2. Cardinality(S \ {x}) \in Sizes
    BY <1>5 DEF Sizes
  <2> QED BY <1>1, <1>3, <1>4, <2>1, <2>2
<1> QED BY <1>5

=============================================================================
