---------------------------- MODULE MCPrimitives -----------------------------
(***************************************************************************)
(* Primitives for TLC: the sizes and numbers come from Primitives.cfg.     *)
(***************************************************************************)
EXTENDS Primitives

\* FE_CARRY's order for two limbs: each once, and the first once more.
MCCarryOrder == <<0, 1, 0>>
\* Seventeen primes whose squares are below 2^31, together more than 2^260.
MCChainModuli == {46337, 46327, 46309, 46307, 46301, 46279, 46273, 46271, 46261,
                  46237, 46229, 46219, 46199, 46187, 46183, 46181, 46171}
\* Every number of Bits + 1 bits.
MCPoints == 0..1023
=============================================================================
