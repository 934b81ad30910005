---------------------------- MODULE MCFileOutput ----------------------------
(***************************************************************************)
(* FileOutput for TLC: the sessions, names and bounds come from the .cfg   *)
(* files.                                                                  *)
(***************************************************************************)
EXTENDS FileOutput, TLC

\* Temporary names are interchangeable, and so are the sessions that neither
\* overwrite nor write key files (for safety properties only).
Symmetry ==
    Permutations(Temps) \cup Permutations(Procs \ (MayOverwrite \cup KeyWriters))
=============================================================================
