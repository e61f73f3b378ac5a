---------------------------- MODULE LeastNumber ----------------------------
(***************************************************************************)
(* The least-number principle for sets of naturals.  Arguments by          *)
(* induction in the proof modules (along a path, up a heap) take a least   *)
(* counterexample instead.                                                 *)
(***************************************************************************)
EXTENDS Naturals, WellFoundedInduction, TLAPS

NatLess == {ss \in Nat \X Nat : ss[1] < ss[2]}

\* The order of the naturals is well founded.
LEMMA NatLessWF == IsWellFoundedOn(NatLess, Nat)
BY NatLessThanWellFounded DEF OpToRel, NatLess

\* A non-empty set of naturals has a least element.
LEMMA LeastNumber ==
    ASSUME NEW T, T \subseteq Nat, T # {}
    PROVE  \E k \in T : \A j \in T : ~ (j < k)
<1>1. \E x \in T : \A y \in T : ~ (<<y, x>> \in NatLess)
  BY WFMin, NatLessWF
<1> QED
  BY <1>1 DEF NatLess
=============================================================================
