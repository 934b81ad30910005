------------------------------- MODULE Layout --------------------------------
(***************************************************************************)
(* How crypto/curve25519.c lays a field element out in limbs, wide and     *)
(* narrow by turns, and what the products of two limbs count for.          *)
(***************************************************************************)
EXTENDS Integers

CONSTANTS
    Limbs,        \* 10
    Narrow,       \* bits of an odd limb, an even one has one more (25)
    Fold          \* the modulus is 2^Bits - Fold (19)

ASSUME LayoutAssumption == Limbs \in {2, 10} /\ Narrow \in 3..25 /\ Fold \in Nat

Bits == (Limbs \div 2) * (2 * Narrow + 1)
Width(i) == IF i % 2 = 0 THEN Narrow + 1 ELSE Narrow
Weight(i) == (i * (2 * Narrow + 1) + 1) \div 2

\* How often f_i * g_j is added to limb (i + j) % Limbs.
Factor(i, j) == (IF i % 2 = 1 /\ j % 2 = 1 THEN 2 ELSE 1)
              * (IF i + j >= Limbs THEN Fold ELSE 1)

\* Weight(i) + Weight(j) is made up by the factor and the place, 2^Bits being
\* Fold.
FactorsAreExact ==
    \A i, j \in 0 .. Limbs - 1 :
        LET wraps == i + j >= Limbs
            k == (i + j) % Limbs
            up == Weight(i) + Weight(j) - Weight(k) - (IF wraps THEN Bits ELSE 0)
        IN up \in 0..1 /\ Factor(i, j) = 2^up * (IF wraps THEN Fold ELSE 1)
=============================================================================
