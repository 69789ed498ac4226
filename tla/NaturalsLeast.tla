---------------------------- MODULE NaturalsLeast ----------------------------
(***************************************************************************)
(* Induction over the natural numbers as a fact about sets, so that it     *)
(* needs no operator as a parameter: a set of numbers that is not empty    *)
(* has a least element.  Applied to the set of the counterexamples.        *)
(***************************************************************************)
EXTENDS Integers, WellFoundedInduction, TLAPS

LEMMA Least ==
  ASSUME NEW S \in SUBSET Nat, S # {}
  PROVE  \E m \in S : \A k \in S : m <= k
<1>1. IsWellFoundedOn(OpToRel(<, Nat), Nat)
  BY NatLessThanWellFounded
<1>2. PICK m \in S : \A k \in S : <<k, m>> \notin OpToRel(<, Nat)
  BY <1>1, WFMin
<1>3. \A k \in S : ~(k < m)
  BY <1>2 DEF OpToRel
<1> QED
  BY <1>3

\* Upwards from any number.
LEMMA FromOn ==
  ASSUME NEW a \in Nat, NEW S, a \in S,
         \A n \in Nat : (n >= a /\ n \in S) => n + 1 \in S
  PROVE  \A n \in Nat : n >= a => n \in S
<1> DEFINE Missed == {n \in Nat : n >= a /\ n \notin S}
<1> SUFFICES ASSUME Missed # {} PROVE FALSE
  OBVIOUS
<1>1. PICK m \in Missed : \A k \in Missed : m <= k
  BY Least
<1>2. m - 1 \in Nat /\ m - 1 >= a
  BY <1>1
<1>3. m - 1 \in S
  BY <1>1, <1>2
<1> QED
  BY <1>1, <1>2, <1>3
=============================================================================
