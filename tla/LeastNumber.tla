---------------------------- MODULE LeastNumber ----------------------------
(* Every set of naturals with an element has a least one: what the proofs   *)
(* of this project use for induction.                                       *)
EXTENDS Integers, WellFoundedInduction, TLAPS

Smaller == {p \in Nat \X Nat : p[1] < p[2]}

LEMMA SmallerRelation == OpToRel(<, Nat) = Smaller
BY DEF OpToRel, Smaller

LEMMA SmallerWellFounded == IsWellFoundedOn(Smaller, Nat)
BY NatLessThanWellFounded, SmallerRelation

LEMMA LeastElement ==
  ASSUME NEW T \in SUBSET Nat, T # {}
  PROVE  \E m \in T : \A k \in T : m <= k
<1>1. PICK m \in T : \A k \in T : ~ (<< k, m >> \in Smaller)
  BY SmallerWellFounded, WFMin
<1>2. ASSUME NEW k \in T
      PROVE  m <= k
  <2>1. k \in Nat /\ m \in Nat
    OBVIOUS
  <2>2. k < m => << k, m >> \in Smaller
    BY <2>1 DEF Smaller
  <2>3. QED
    BY <1>1, <2>1, <2>2
<1>3. QED
  BY <1>2
=============================================================================
