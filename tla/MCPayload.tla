----------------------------- MODULE MCPayload ------------------------------
(***************************************************************************)
(* Payload for TLC: the sizes come from Payload.cfg.                       *)
(***************************************************************************)
EXTENDS Payload
=============================================================================
