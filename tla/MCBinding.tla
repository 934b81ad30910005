----------------------------- MODULE MCBinding -----------------------------
(***************************************************************************)
(* Binding for TLC: sizes and bounds come from Binding.cfg.                *)
(***************************************************************************)
EXTENDS Binding, TLC

\* Private keys are interchangeable.
Symmetry == Permutations(Keys)
=============================================================================
