------------------------------- MODULE MCIbuf -------------------------------
(***************************************************************************)
(* Ibuf by itself for TLC: the sizes come from the .cfg files.             *)
(***************************************************************************)
EXTENDS Ibuf
=============================================================================
