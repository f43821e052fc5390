---------------------------- MODULE LeastElements ----------------------------
(***************************************************************************)
(* Induction over the naturals in a form a proof can cite without an       *)
(* operator parameter: a set of numbers that is not empty has a least one. *)
(* A fact about every n is proved by taking the least n that refutes it.   *)
(***************************************************************************)
EXTENDS Integers, WellFoundedInduction, TLAPS

LessThan == {pair \in Nat \X Nat : pair[1] < pair[2]}

\* The order of the naturals has no infinite descent.
LEMMA LessThanWellFounded == IsWellFoundedOn(LessThan, Nat)
  BY NatLessThanWellFounded DEF OpToRel, LessThan

\* Every set of naturals with a member has a least member.
LEMMA LeastElement ==
    ASSUME NEW T, T \subseteq Nat, T # {}
    PROVE  \E x \in T : \A y \in T : x <= y
<1>1. PICK x \in T : \A y \in T : ~ (<<y, x>> \in LessThan)
  BY LessThanWellFounded, WFMin
<1>2. ASSUME NEW y \in T
      PROVE  x <= y
  <2>1. x \in Nat /\ y \in Nat
    OBVIOUS
  <2>2. y < x => <<y, x>> \in LessThan
    BY <2>1 DEF LessThan
  <2> QED
    BY <1>1, <2>1, <2>2
<1> QED
  BY <1>2

=============================================================================
