------------------------------ MODULE Induction ------------------------------
(***************************************************************************)
(* The least-number principle for sets of naturals, from which proofs by   *)
(* induction are made here: the least counterexample is refuted.           *)
(***************************************************************************)
EXTENDS Naturals, FiniteSetsExt, WellFoundedInduction, TLAPS

\* A set of naturals that is not empty has a least element, and Min is it.
LEMMA LeastNat ==
    ASSUME NEW S, S \subseteq Nat, S # {}
    PROVE  Min(S) \in S /\ \A y \in S : Min(S) <= y
<1>1. IsWellFoundedOn(OpToRel(<, Nat), Nat)
    BY NatLessThanWellFounded, Zenon
<1>2. \A x, y \in Nat : <<x, y>> \in OpToRel(<, Nat) <=> x < y
    BY Zenon DEF OpToRel
<1>3. \E R : IsWellFoundedOn(R, Nat) /\ \A x, y \in Nat : <<x, y>> \in R <=> x < y
    BY <1>1, <1>2, Zenon
<1>4. PICK R : IsWellFoundedOn(R, Nat) /\ \A x, y \in Nat : <<x, y>> \in R <=> x < y
    BY <1>3
<1>5. \E x \in S : \A y \in S : ~ (<<y, x>> \in R)
    <2>1. IsWellFoundedOn(R, Nat)
        BY <1>4
    <2>2. S \subseteq Nat /\ S # {}
        OBVIOUS
    <2>3. QED
        BY ONLY <2>1, <2>2, WFMin, Zenon
<1>6. PICK x \in S : \A y \in S : ~ (<<y, x>> \in R)
    BY <1>5
<1>7. \A y \in S : x \in Nat /\ y \in Nat /\ ~ (y < x)
    BY <1>4, <1>6, Zenon
<1>8. \A y \in S : x <= y
    BY <1>7
<1>9. QED
    BY <1>8 DEF Min
=============================================================================
