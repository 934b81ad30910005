------------------------------ MODULE MCHeader ------------------------------
(***************************************************************************)
(* Header for TLC: the keys, costs and bounds come from Header.cfg.        *)
(***************************************************************************)
EXTENDS Header, TLC

\* Key pairs are interchangeable.
Symmetry == Permutations(Keys)
=============================================================================
