------------------------------- MODULE MCArmor -------------------------------
(***************************************************************************)
(* Armor for TLC: the sizes come from Armor.cfg.                           *)
(***************************************************************************)
EXTENDS Armor
=============================================================================
